---------------------------- MODULE Spec2Model ----------------------------
(***************************************************************************)
(* Model of galion: the background worker of src/src/ui.rs                 *)
(* (GalionApp::background_thread), the two mpsc channels that connect it   *)
(* to the terminal front end (TuiApp), the front end's mode machine and    *)
(* the remote configuration store (src/src/app.rs, src/src/remote.rs).     *)
(*                                                                         *)
(* Text is a sequence of characters, a character is its Unicode code       *)
(* point; byte offsets are computed from the UTF-8 width of each           *)
(* character.  Option<T> is a sequence of length 0 (None) or 1 (Some).     *)
(* Enum values are tuples whose first element is the variant name.         *)
(***************************************************************************)
EXTENDS Integers, Sequences, FiniteSets, TLC

(***************************************************************************)
(* Bounds of the model.                                                    *)
(***************************************************************************)
\* Submit commands the front end sends in one session.
MaxJobs == 2
\* Snapshots that may wait in the snapshot channel (the channel itself is
\* unbounded; the worker of the model publishes only below this length).
MaxQueue == 2
\* The selection index (without overflow checks, select-next on an empty
\* store counts up without limit).
MaxSelected == 3

\* Key presses of one session that change the store (duplicate, confirmed
\* delete, commit).
MaxEdits == 2
\* Characters typed into the edit buffer in one session.
MaxTyped == 2
\* Times an illegal action is repeated after its error is dismissed.
MaxCycles == 3

(***************************************************************************)
(* Values.                                                                 *)
(***************************************************************************)
None == << >>
Some(x) == << x >>
IsSome(o) == Len(o) = 1
Unwrap(o) == o[1]

\* Option<String>::unwrap_or_default
UnwrapOrDefault(o) == IF IsSome(o) THEN o[1] ELSE << >>

\* Code points of the characters the key bindings name, and one character
\* of two UTF-8 bytes (233) used as ordinary text.
Chr == [c |-> 99, d |-> 100, e |-> 101, j |-> 106, k |-> 107, n |-> 110,
        q |-> 113, r |-> 114, y |-> 121, eacute |-> 233]

\* char::len_utf8
LenUtf8(ch) == IF ch < 128 THEN 1 ELSE IF ch < 2048 THEN 2
               ELSE IF ch < 65536 THEN 3 ELSE 4

\* ConfigOrigin
GalionConfig == "GalionConfig"
RcloneConfig == "RcloneConfig"

\* RemoteConfiguration
Remote(name, src, dest, origin) ==
    [remote_name |-> name, remote_src |-> src, remote_dest |-> dest,
     config_origin |-> origin]

\* The identity with source and destination exchanged.
SyncJobDataSwapped(id, name, src, dest) ==
    [job_id |-> id, name |-> name, src |-> dest, dest |-> src]

\* SyncJobData
SyncJobData(id, name, src, dest) ==
    [job_id |-> id, name |-> name, src |-> src, dest |-> dest]

\* JobStatus payloads an engine reports (success, duration, error,
\* startTime): of a job that runs, and of a job that has finished well or
\* badly.  debug_str is the payload's own text and carries nothing more.
RunningPayload ==
    [success |-> FALSE, duration |-> 0, error |-> "", start_time |-> "t0"]
FinishedPayloads ==
    { [success |-> TRUE,  duration |-> 12, error |-> "",     start_time |-> "t0"],
      [success |-> FALSE, duration |-> 3,  error |-> "fail", start_time |-> "t0"] }

\* JobState
Sent == << "Sent" >>
Pending(st) == << "Pending", st >>
Done(st) == << "Done", st >>

\* The test that takes Sent alone for waiting.
is_waitingSentOnly(state) == state[1] = "Sent"

\* JobState::is_waiting
is_waiting(state) == state[1] \in {"Sent", "Pending"}

\* SyncJob (command channel) and ResultJob (snapshot channel)
CmdExit == << "Exit" >>
CmdSync(data) == << "Sync", data >>
EvExit == << "Exit" >>
EvSync(jobs_list) == << "Sync", jobs_list >>

\* An empty JobsList (BTreeMap::new)
EmptyJobs == [k \in {} |-> Sent]

(***************************************************************************)
(* BTreeMap<SyncJobData, JobState>: derived Ord of SyncJobData compares    *)
(* job_id, then name, src, dest (String compares bytewise, which is code   *)
(* point order for UTF-8).                                                 *)
(***************************************************************************)
RECURSIVE StrCmp(_, _)
StrCmp(s, t) ==
    IF s = << >> /\ t = << >> THEN 0
    ELSE IF s = << >> THEN -1
    ELSE IF t = << >> THEN 1
    ELSE IF Head(s) < Head(t) THEN -1
    ELSE IF Head(s) > Head(t) THEN 1
    ELSE StrCmp(Tail(s), Tail(t))

KeyLess(a, b) ==
    IF a.job_id # b.job_id THEN a.job_id < b.job_id
    ELSE IF StrCmp(a.name, b.name) # 0 THEN StrCmp(a.name, b.name) < 0
    ELSE IF StrCmp(a.src, b.src) # 0 THEN StrCmp(a.src, b.src) < 0
    ELSE StrCmp(a.dest, b.dest) < 0

\* The keys of a map in iteration order.
RECURSIVE SortedKeys(_)
SortedKeys(S) ==
    IF S = {} THEN << >>
    ELSE LET m == CHOOSE k \in S : \A o \in S \ {k} : KeyLess(k, o)
         IN << m >> \o SortedKeys(S \ {m})

\* The insert that keeps no entry but the one it puts in.
MapInsertOnly(m, key, val) ==
    [k \in {key} |-> val]

\* BTreeMap::insert
MapInsert(m, key, val) ==
    [k \in DOMAIN m \cup {key} |-> IF k = key THEN val ELSE m[k]]


(***************************************************************************)
(* EditRemote (src/src/remote.rs): the edit buffer.                        *)
(***************************************************************************)
EditRemote(idx, ci, name, src, dest) ==
    [idx_string |-> idx, character_index |-> ci, edit_remote_name |-> name,
     edit_remote_src |-> src, edit_remote_dest |-> dest]

\* The text of the selected input (match self.idx_string { 0, 1, _ }).
ActiveInput(b) ==
    IF b.idx_string = 0 THEN b.edit_remote_name
    ELSE IF b.idx_string = 1 THEN b.edit_remote_src
    ELSE b.edit_remote_dest

SetActiveInput(b, text) ==
    IF b.idx_string = 0 THEN [b EXCEPT !.edit_remote_name = text]
    ELSE IF b.idx_string = 1 THEN [b EXCEPT !.edit_remote_src = text]
    ELSE [b EXCEPT !.edit_remote_dest = text]

\* Byte offset of the n-th character of s (str::char_indices).
RECURSIVE ByteOffset(_, _)
ByteOffset(s, n) ==
    IF n = 0 \/ s = << >> THEN 0
    ELSE LenUtf8(Head(s)) + ByteOffset(Tail(s), n - 1)

\* String::len, in bytes
ByteLen(s) == ByteOffset(s, Len(s))

\* EditRemote::byte_index
byte_index(b) ==
    LET input == ActiveInput(b)
    IN IF b.character_index < Len(input)
       THEN ByteOffset(input, b.character_index)
       ELSE ByteLen(input)

\* String::insert(idx, ch): idx is a byte offset on a character boundary.
StringInsert(s, idx, ch) ==
    LET n == CHOOSE i \in 0..Len(s) : ByteOffset(s, i) = idx
    IN SubSeq(s, 1, n) \o << ch >> \o SubSeq(s, n + 1, Len(s))

\* The cursor position taken as it comes, whatever the field's length.
clamp_cursorUnbounded(b, new_cursor_pos) == new_cursor_pos

\* EditRemote::clamp_cursor
clamp_cursor(b, new_cursor_pos) ==
    LET input_count == Len(ActiveInput(b))
    IN IF new_cursor_pos < 0 THEN 0
       ELSE IF new_cursor_pos > input_count THEN input_count
       ELSE new_cursor_pos

\* EditRemote::move_cursor_right
move_cursor_right(b) ==
    [b EXCEPT !.character_index = clamp_cursor(b, b.character_index + 1)]

\* The move to the left that leaves the cursor where it is.
move_cursor_leftStays(b) == b

\* EditRemote::move_cursor_left (saturating_sub)
move_cursor_left(b) ==
    LET cursor_moved_left ==
            IF b.character_index = 0 THEN 0 ELSE b.character_index - 1
    IN [b EXCEPT !.character_index = clamp_cursor(b, cursor_moved_left)]

\* EditRemote::enter_char
enter_char(b, new_char) ==
    LET index == byte_index(b)
    IN move_cursor_right(
           SetActiveInput(b, StringInsert(ActiveInput(b), index, new_char)))

\* The deletion that drops the character under the cursor and not the one
\* before it.
delete_charUnderCursor(b) ==
    IF b.character_index # 0
    THEN LET input == ActiveInput(b)
             current_index == b.character_index
         IN move_cursor_left(
                SetActiveInput(b, SubSeq(input, 1, current_index)
                                  \o SubSeq(input, current_index + 2, Len(input))))
    ELSE b

\* EditRemote::delete_char
delete_char(b) ==
    IF b.character_index # 0
    THEN LET input == ActiveInput(b)
             current_index == b.character_index
             from_left_to_current_index == current_index - 1
             before_char_to_delete ==
                 SubSeq(input, 1, IF from_left_to_current_index < Len(input)
                                  THEN from_left_to_current_index ELSE Len(input))
             after_char_to_delete == SubSeq(input, current_index + 1, Len(input))
         IN move_cursor_left(
                SetActiveInput(b, before_char_to_delete \o after_char_to_delete))
    ELSE b

\* EditRemote::reset_char_index
reset_char_index(b) ==
    [b EXCEPT !.character_index = clamp_cursor(b, Len(ActiveInput(b)))]

\* The configuration in which an empty text stands for no source or no
\* destination.
finishEmptyIsAbsent(b) ==
    Remote(b.edit_remote_name,
           IF b.edit_remote_src = << >> THEN None ELSE Some(b.edit_remote_src),
           IF b.edit_remote_dest = << >> THEN None ELSE Some(b.edit_remote_dest),
           GalionConfig)

\* EditRemote::finish
finish(b) ==
    Remote(b.edit_remote_name, Some(b.edit_remote_src), Some(b.edit_remote_dest),
           GalionConfig)

(***************************************************************************)
(* GalionConfig (src/src/app.rs): the store and its persisted form.        *)
(***************************************************************************)
\* What serde writes of one RemoteConfiguration (config_origin is skipped).
Persisted(r) ==
    [remote_name |-> r.remote_name, remote_src |-> r.remote_src,
     remote_dest |-> r.remote_dest]

RECURSIVE FilterGalion(_)
FilterGalion(rs) ==
    IF rs = << >> THEN << >>
    ELSE IF Head(rs).config_origin = GalionConfig
         THEN << Head(rs) >> \o FilterGalion(Tail(rs))
         ELSE FilterGalion(Tail(rs))

\* The write of every entry of the store, whatever its origin.
save_configAll(rs) == [i \in 1..Len(rs) |-> Persisted(rs[i])]

\* GalionConfig::save_config: the file's contents after a successful write.
save_config(rs) ==
    LET remotes_to_save == FilterGalion(rs)
    IN [i \in 1..Len(remotes_to_save) |-> Persisted(remotes_to_save[i])]

\* The insertion at the end of the store.
InsertTail(rs, x) == rs \o << x >>

\* The insertion behind the first entry of the store.
InsertAfterHead(rs, x) ==
    IF rs = << >> THEN << x >> ELSE << Head(rs), x >> \o Tail(rs)

\* Vec::insert(0, x)
InsertHead(rs, x) == << x >> \o rs

\* The removal of the entry after the one at idx.
VecRemoveAfter(rs, idx) == SubSeq(rs, 1, idx + 1) \o SubSeq(rs, idx + 3, Len(rs))

\* Vec::remove(idx), idx counted from 0
VecRemove(rs, idx) == SubSeq(rs, 1, idx) \o SubSeq(rs, idx + 2, Len(rs))

\* slice::get(idx), idx counted from 0
VecGet(rs, idx) == IF idx < Len(rs) THEN Some(rs[idx + 1]) ELSE None

(***************************************************************************)
(* TuiApp (src/src/ui.rs): the key handlers, as functions of the front     *)
(* end's fields t = [mode, remotes, saved, selected, exit, out, panicked]. *)
(* out collects the commands handed to tx_to_thread.send; saved is the     *)
(* contents of the configuration file; selected counts from 0.             *)
(***************************************************************************)
\* TuiMode
ModeNormal == << "Normal" >>
ModeError(msg) == << "Error", msg >>
ModeDelete == << "Delete" >>
ModeEditString(b) == << "EditString", b >>

\* Key events: KeyCode::Char(ch) with the CONTROL modifier or not, and the
\* named keys.
KeyChar(ch) == << "Char", ch, FALSE >>
KeyCtrl(ch) == << "Char", ch, TRUE >>
IsChar(key, ch) == key[1] = "Char" /\ key[2] = ch
IsCode(key, code) == key[1] = code

\* An error that also empties the job view.
new_errorClearsJobs(t, msg) ==
    [t EXCEPT !.mode = ModeError(msg), !.jobs = EmptyJobs]

\* TuiApp::new_error
new_error(t, msg) == [t EXCEPT !.mode = ModeError(msg)]

\* Leaving without a word to the worker.
exitNoSend(t) == [t EXCEPT !.exit = TRUE]

\* TuiApp::exit
exit(t) == [t EXCEPT !.exit = TRUE, !.out = Append(@, CmdExit)]

\* The trigger that takes a missing destination for an empty one.
send_jobNoDestination(t) ==
    IF ~IsSome(t.selected)
    THEN new_error(t, "No remote configuration selected")
    ELSE LET got == VecGet(t.remotes, Unwrap(t.selected))
         IN IF ~IsSome(got)
            THEN new_error(t, "No remote configuration at index {idx} in remotes")
            ELSE IF ~IsSome(Unwrap(got).remote_src)
            THEN new_error(t, "Remote doesn't have a source - press e for edit")
            ELSE [t EXCEPT !.out = Append(@, CmdSync(SyncJobData(
                      0, Unwrap(got).remote_name, Unwrap(Unwrap(got).remote_src),
                      UnwrapOrDefault(Unwrap(got).remote_dest))))]

\* TuiApp::send_job
send_job(t) ==
    IF ~IsSome(t.selected)
    THEN new_error(t, "No remote configuration selected")
    ELSE LET got == VecGet(t.remotes, Unwrap(t.selected))
         IN IF ~IsSome(got)
            THEN new_error(t, "No remote configuration at index {idx} in remotes")
            ELSE LET current_selected_job == Unwrap(got)
                 IN IF ~IsSome(current_selected_job.remote_src)
                    THEN new_error(t, "Remote doesn't have a source - press e for edit")
                    ELSE IF ~IsSome(current_selected_job.remote_dest)
                    THEN new_error(t, "Remote doesn't have a destination - press e for edit")
                    ELSE [t EXCEPT !.out = Append(@, CmdSync(SyncJobData(
                              0, \* fake job id
                              current_selected_job.remote_name,
                              Unwrap(current_selected_job.remote_src),
                              Unwrap(current_selected_job.remote_dest))))]

\* The head of the store taken for the selected entry.
SelectedConfigFirst(t) ==
    IF IsSome(t.selected) THEN VecGet(t.remotes, 0) ELSE None

\* The selected entry, when the selection designates one
\* (if let Some(idx) = selected && let Some(config) = remotes.get(idx)).
SelectedConfig(t) ==
    IF IsSome(t.selected) THEN VecGet(t.remotes, Unwrap(t.selected)) ELSE None

\* The persist whose failure is not reported.
SaveAfterSilent(t, save_ok, err_msg) ==
    IF save_ok
    THEN [t EXCEPT !.saved = save_config(t.remotes), !.mode = ModeNormal]
    ELSE [t EXCEPT !.mode = ModeNormal]

\* Persist after a mutation: save_config fails or succeeds (save_ok).
SaveAfter(t, save_ok, err_msg) ==
    IF save_ok
    THEN [t EXCEPT !.saved = save_config(t.remotes), !.mode = ModeNormal]
    ELSE new_error(t, err_msg)

\* usize subtraction len - 1: with overflow checks (checked) a zero length
\* panics, without them it wraps to usize::MAX.

\* TuiApp::handle_key_event_normal_mode, the j / Down arm
SelectNext(t, checked) ==
    LET len == Len(t.remotes)
    IN IF ~IsSome(t.selected) THEN [t EXCEPT !.selected = Some(0)]
       ELSE IF len = 0
       THEN IF checked THEN [t EXCEPT !.panicked = TRUE]
            ELSE \* i >= usize::MAX only for i = usize::MAX
                 [t EXCEPT !.selected = Some(Unwrap(t.selected) + 1)]
       ELSE IF Unwrap(t.selected) >= len - 1
       THEN [t EXCEPT !.selected = Some(len - 1)]
       ELSE [t EXCEPT !.selected = Some(Unwrap(t.selected) + 1)]

\* TuiApp::handle_key_event_normal_mode, the k / Up arm
SelectPrevious(t) ==
    IF ~IsSome(t.selected) THEN [t EXCEPT !.selected = Some(0)]
    ELSE IF Unwrap(t.selected) = 0 THEN [t EXCEPT !.selected = Some(0)]
    ELSE [t EXCEPT !.selected = Some(Unwrap(t.selected) - 1)]

\* The Normal mode handler whose duplicate arm does not look at the origin.
handle_key_event_normal_modeDuplicatesAny(t, key, checked) ==
    IF IsChar(key, Chr.q) \/ IsCode(key, "Esc") THEN exit(t)
    ELSE IF IsCode(key, "Right") THEN send_job(t)
    ELSE IF IsChar(key, Chr.r) \/ IsCode(key, "Delete") \/ IsCode(key, "Backspace")
    THEN LET config == SelectedConfig(t)
         IN IF IsSome(config)
            THEN IF Unwrap(config).config_origin = RcloneConfig
                 THEN new_error(t, "Cannot delete a remote from the rclone config")
                 ELSE [t EXCEPT !.mode = ModeDelete]
            ELSE new_error(t, "Cannot delete the config")
    ELSE IF IsChar(key, Chr.d)
    THEN LET config == SelectedConfig(t)
         IN IF IsSome(config)
            THEN [t EXCEPT !.remotes = InsertHead(@, Unwrap(config))]
            ELSE new_error(t, "Cannot duplicate the config")
    ELSE IF IsChar(key, Chr.j) \/ IsCode(key, "Down") THEN SelectNext(t, checked)
    ELSE IF IsChar(key, Chr.k) \/ IsCode(key, "Up") THEN SelectPrevious(t)
    ELSE IF IsChar(key, Chr.e)
    THEN LET config == SelectedConfig(t)
         IN IF IsSome(config)
            THEN [t EXCEPT !.mode = ModeEditString(EditRemote(0, 0,
                      Unwrap(config).remote_name,
                      UnwrapOrDefault(Unwrap(config).remote_src),
                      UnwrapOrDefault(Unwrap(config).remote_dest)))]
            ELSE new_error(t, "Cannot edit")
    ELSE t

\* The Normal mode handler whose duplicate arm moves the selection along
\* with the duplicated entry.
handle_key_event_normal_modeFollows(t, key, checked) ==
    IF IsChar(key, Chr.q) \/ IsCode(key, "Esc") THEN exit(t)
    ELSE IF IsCode(key, "Right") THEN send_job(t)
    ELSE IF IsChar(key, Chr.r) \/ IsCode(key, "Delete") \/ IsCode(key, "Backspace")
    THEN LET config == SelectedConfig(t)
         IN IF IsSome(config)
            THEN IF Unwrap(config).config_origin = RcloneConfig
                 THEN new_error(t, "Cannot delete a remote from the rclone config")
                 ELSE [t EXCEPT !.mode = ModeDelete]
            ELSE new_error(t, "Cannot delete the config")
    ELSE IF IsChar(key, Chr.d)
    THEN LET config == SelectedConfig(t)
         IN IF IsSome(config)
            THEN IF Unwrap(config).config_origin = RcloneConfig
                 THEN new_error(t, "Cannot duplicate a rclone config - try to edit it")
                 ELSE [t EXCEPT !.remotes = InsertHead(@, Unwrap(config)),
                                !.selected = Some(Unwrap(@) + 1)]
            ELSE new_error(t, "Cannot duplicate the config")
    ELSE IF IsChar(key, Chr.j) \/ IsCode(key, "Down") THEN SelectNext(t, checked)
    ELSE IF IsChar(key, Chr.k) \/ IsCode(key, "Up") THEN SelectPrevious(t)
    ELSE IF IsChar(key, Chr.e)
    THEN LET config == SelectedConfig(t)
         IN IF IsSome(config)
            THEN [t EXCEPT !.mode = ModeEditString(EditRemote(0, 0,
                      Unwrap(config).remote_name,
                      UnwrapOrDefault(Unwrap(config).remote_src),
                      UnwrapOrDefault(Unwrap(config).remote_dest)))]
            ELSE new_error(t, "Cannot edit")
    ELSE t

\* TuiApp::handle_key_event_normal_mode
handle_key_event_normal_mode(t, key, checked) ==
    IF IsChar(key, Chr.q) \/ IsCode(key, "Esc") THEN exit(t)
    ELSE IF IsCode(key, "Right") THEN send_job(t)
    ELSE IF IsChar(key, Chr.r) \/ IsCode(key, "Delete") \/ IsCode(key, "Backspace")
    THEN LET config == SelectedConfig(t)
         IN IF IsSome(config)
            THEN IF Unwrap(config).config_origin = RcloneConfig
                 THEN new_error(t, "Cannot delete a remote from the rclone config")
                 ELSE [t EXCEPT !.mode = ModeDelete]
            ELSE new_error(t, "Cannot delete the config")
    ELSE IF IsChar(key, Chr.d)
    THEN LET config == SelectedConfig(t)
         IN IF IsSome(config)
            THEN IF Unwrap(config).config_origin = RcloneConfig
                 THEN new_error(t, "Cannot duplicate a rclone config - try to edit it")
                 ELSE [t EXCEPT !.remotes = InsertHead(@, Unwrap(config))]
            ELSE new_error(t, "Cannot duplicate the config")
    ELSE IF IsChar(key, Chr.j) \/ IsCode(key, "Down") THEN SelectNext(t, checked)
    ELSE IF IsChar(key, Chr.k) \/ IsCode(key, "Up") THEN SelectPrevious(t)
    ELSE IF IsChar(key, Chr.e)
    THEN LET config == SelectedConfig(t)
         IN IF IsSome(config)
            THEN [t EXCEPT !.mode = ModeEditString(EditRemote(0, 0,
                      Unwrap(config).remote_name,
                      UnwrapOrDefault(Unwrap(config).remote_src),
                      UnwrapOrDefault(Unwrap(config).remote_dest)))]
            ELSE new_error(t, "Cannot edit")
    ELSE t

\* The dismissal that also moves the selection to the head of the list.
HandleKeyErrorResets(t, key) ==
    IF IsChar(key, Chr.q) \/ IsCode(key, "Esc")
    THEN [t EXCEPT !.mode = ModeNormal, !.selected = Some(0)]
    ELSE t

\* The Error arm that takes Enter for a dismissal too.
HandleKeyErrorEnterDismisses(t, key) ==
    IF IsChar(key, Chr.q) \/ IsCode(key, "Esc") \/ IsCode(key, "Enter")
    THEN [t EXCEPT !.mode = ModeNormal]
    ELSE t

\* The Error arm that lets the trigger-job through.
HandleKeyErrorTriggers(t, key) ==
    IF IsChar(key, Chr.q) \/ IsCode(key, "Esc")
    THEN [t EXCEPT !.mode = ModeNormal]
    ELSE IF IsCode(key, "Right") THEN send_job([t EXCEPT !.mode = ModeNormal])
    ELSE t

\* TuiApp::handle_key_event, the TuiMode::Error arm
HandleKeyError(t, key) ==
    IF IsChar(key, Chr.q) \/ IsCode(key, "Esc")
    THEN [t EXCEPT !.mode = ModeNormal]
    ELSE t

\* The Delete arm in which Esc confirms as y and Enter do.
HandleKeyDeleteEscConfirms(t, key, save_ok) ==
    IF IsChar(key, Chr.q) \/ IsChar(key, Chr.n)
    THEN [t EXCEPT !.mode = ModeNormal]
    ELSE IF IsChar(key, Chr.y) \/ IsCode(key, "Enter") \/ IsCode(key, "Esc")
    THEN LET config == SelectedConfig(t)
         IN IF IsSome(config)
            THEN IF Unwrap(config).config_origin = RcloneConfig
                 THEN new_error(t, "Cannot delete a remote from the rclone config")
                 ELSE SaveAfter(
                          [t EXCEPT !.remotes = VecRemove(@, Unwrap(t.selected))],
                          save_ok,
                          "Failed to save the config after remote deletion {e}")
            ELSE t
    ELSE t

\* TuiApp::handle_key_event, the TuiMode::Delete arm
HandleKeyDelete(t, key, save_ok) ==
    IF IsChar(key, Chr.q) \/ IsChar(key, Chr.n) \/ IsCode(key, "Esc")
    THEN [t EXCEPT !.mode = ModeNormal]
    ELSE IF IsChar(key, Chr.y) \/ IsCode(key, "Enter")
    THEN LET config == SelectedConfig(t)
         IN IF IsSome(config)
            THEN IF Unwrap(config).config_origin = RcloneConfig
                 THEN new_error(t, "Cannot delete a remote from the rclone config")
                 ELSE SaveAfter(
                          [t EXCEPT !.remotes = VecRemove(@, Unwrap(t.selected))],
                          save_ok,
                          "Failed to save the config after remote deletion {e}")
            ELSE t
    ELSE t

\* The edit buffer of an EditString mode, replaced.
WithBuffer(t, b) == [t EXCEPT !.mode = ModeEditString(b)]

\* TuiApp::handle_key_event, the TuiMode::EditString arm
HandleKeyEditString(t, key, save_ok) ==
    LET edit_string == t.mode[2]
    IN IF IsCode(key, "Esc") THEN [t EXCEPT !.mode = ModeNormal]
       ELSE IF IsCode(key, "Down") \/ IsCode(key, "Tab")
       THEN IF edit_string.idx_string # 2
            THEN WithBuffer(t, reset_char_index(
                     [edit_string EXCEPT !.idx_string = @ + 1]))
            ELSE t
       ELSE IF IsCode(key, "Up")
       THEN IF edit_string.idx_string # 0
            THEN WithBuffer(t, reset_char_index(
                     [edit_string EXCEPT !.idx_string = @ - 1]))
            ELSE t
       ELSE IF IsCode(key, "Enter")
       THEN LET new_remote == finish(edit_string)
                config == SelectedConfig(t)
            IN IF IsSome(config)
               THEN SaveAfter(
                        IF Unwrap(config).config_origin = GalionConfig
                        THEN [t EXCEPT !.remotes[Unwrap(t.selected) + 1] = new_remote]
                        ELSE [t EXCEPT !.remotes = InsertHead(@, new_remote)],
                        save_ok,
                        "Error save the config {e}")
               ELSE new_error(t, "Cannot edit remote")
       ELSE IF IsCode(key, "Left") THEN WithBuffer(t, move_cursor_left(edit_string))
       ELSE IF IsCode(key, "Right") THEN WithBuffer(t, move_cursor_right(edit_string))
       ELSE IF IsCode(key, "Char") THEN WithBuffer(t, enter_char(edit_string, key[2]))
       ELSE IF IsCode(key, "Backspace") THEN WithBuffer(t, delete_char(edit_string))
       ELSE t

\* The Ctrl + c test at the head of TuiApp::handle_key_event
IsHardInterrupt(key) == IsChar(key, Chr.c) /\ key[3]

\* The dispatch with the Ctrl + c test made in Normal mode alone.
handle_key_eventModeFirst(t, key, save_ok, checked) ==
    IF t.mode[1] = "Normal"
    THEN IF IsHardInterrupt(key) THEN exit(t)
         ELSE handle_key_event_normal_mode(t, key, checked)
    ELSE IF t.mode[1] = "Error" THEN HandleKeyError(t, key)
    ELSE IF t.mode[1] = "Delete" THEN HandleKeyDelete(t, key, save_ok)
    ELSE HandleKeyEditString(t, key, save_ok)

\* TuiApp::handle_key_event
handle_key_event(t, key, save_ok, checked) ==
    IF IsHardInterrupt(key) THEN exit(t)
    ELSE IF t.mode[1] = "Normal" THEN handle_key_event_normal_mode(t, key, checked)
    ELSE IF t.mode[1] = "Error" THEN HandleKeyError(t, key)
    ELSE IF t.mode[1] = "Delete" THEN HandleKeyDelete(t, key, save_ok)
    ELSE HandleKeyEditString(t, key, save_ok)

(***************************************************************************)
(* State.                                                                  *)
(***************************************************************************)
VARIABLES
    \* worker (GalionApp::background_thread)
    tracking_jobs,          \* JobsList of the worker
    wpc,                    \* where the worker is: "loop", "poll", "try_recv",
                            \* "recv", "failed" (thread_loop returned Err),
                            \* "ok" / "err" (background_thread returned)
    poll_iter,              \* entries of tracking_jobs.clone() still to visit
    thread_err,             \* the error thread_loop returned: "none",
                            \* "decode" (serde_json::from_value) or "sync"
                            \* (Rclone::sync)
    \* channels (GalionApp::run_tui)
    to_thread,              \* commands sent and not yet received
    to_ui,                  \* events sent and not yet received
    ui_dropped,             \* the TuiApp, and with it rx_from_thread and
                            \* tx_to_thread, is dropped
    \* engine
    next_job_id,            \* the id the engine gives the next accepted job
    \* front end (TuiApp)
    fpc,                    \* "recv", "events", "left", "panicked", "joined"
    mode, remote_configurations, saved, selected, exit_flag, jobs,
    app_result,             \* what TuiApp::run returned
    run_result,             \* what GalionApp::run_tui returned
    \* the surroundings of the session: the keys the user presses (keys),
    \* what the user may still do within the bounds (typed, jobs, edits),
    \* whether the user ever leaves and the terminal ever fails (leaves),
    \* and whether the engine answers every call with a well-formed answer
    \* (cooperative)
    session

worker_vars == << tracking_jobs, wpc, poll_iter, thread_err >>
chan_vars == << to_thread, to_ui, ui_dropped >>
fe_vars == << fpc, mode, remote_configurations, saved, selected, exit_flag,
              jobs, app_result, run_result >>
vars == << tracking_jobs, wpc, poll_iter, thread_err, to_thread, to_ui, ui_dropped,
           next_job_id, fpc, mode, remote_configurations, saved, selected,
           exit_flag, jobs, app_result, run_result, session >>

\* The worker has returned: its channel ends (tx_to_ui, rx_to_ui) are dropped.
WorkerReturned == wpc \in {"ok", "err"}

\* The key presses of the model: every key some arm names, a character of
\* two bytes, Ctrl + c, and a key no arm names.
Keys ==
    { KeyChar(Chr[n]) : n \in DOMAIN Chr } \cup { KeyCtrl(Chr.c) } \cup
    { << code >> : code \in {"Esc", "Enter", "Tab", "Up", "Down", "Left",
                             "Right", "Backspace", "Delete", "F1"} }

\* The keys of a user who changes the store: the characters of the
\* duplicate, delete, edit and confirm bindings and the named keys, but for
\* those that change the text of the edit buffer or move in it to the left.
EditKeys ==
    { KeyChar(Chr[n]) : n \in {"d", "e", "r", "y"} } \cup { KeyCtrl(Chr.c) } \cup
    { << code >> : code \in {"Esc", "Enter", "Tab", "Up", "Down", "Right",
                             "Delete"} }

\* The keys of a user who types: the named keys, the edit binding (a
\* character of one byte) and a character of two bytes.
TypeKeys ==
    { KeyChar(Chr.e), KeyChar(Chr.eacute), KeyCtrl(Chr.c) } \cup
    { << code >> : code \in {"Esc", "Enter", "Tab", "Up", "Down", "Left",
                             "Right", "Backspace"} }

\* The keys of a user who browses the list, triggers jobs, dismisses errors
\* and leaves.
BrowseKeys ==
    { KeyChar(Chr.q), KeyCtrl(Chr.c), << "Down" >>, << "Up" >>, << "Right" >> }

(***************************************************************************)
(* Initial stores: the galion configuration file's entries, then the       *)
(* engine's remotes appended by GalionApp::init (source None).             *)
(***************************************************************************)
UserA == Remote(<< 97 >>, Some(<< 115 >>), Some(<< 100 >>), GalionConfig)
UserB == Remote(<< 98 >>, Some(<< 115 >>), None, GalionConfig)
EngineR == Remote(<< 114 >>, None, Some(<< 114, 58 >>), RcloneConfig)

EngineS == Remote(<< 115 >>, None, Some(<< 115, 58 >>), RcloneConfig)

InitStores == { << UserA, EngineR >>, << UserB >> }

\* Stores of the sessions that edit: two engine remotes around and after
\* the user's entries.
EditStores == { << UserA, EngineR >>, << UserB, EngineR, EngineS >> }

\* Stores of the user's entries alone, the engine having no remote: the
\* deletions can empty them.
ShrinkStores == { << UserB >>, << UserA, UserB >> }

\* GalionConfig::load_config keeps what the file holds: the entries of
\* origin GalionConfig.
InitWith(stores, keys, typed, njobs, edits, leaves, cooperative) ==
    /\ tracking_jobs = EmptyJobs
    /\ wpc = "loop"
    /\ poll_iter = << >>
    /\ thread_err = "none"
    /\ to_thread = << >>
    /\ to_ui = << >>
    /\ ui_dropped = FALSE
    /\ next_job_id = 1
    /\ fpc = "recv"
    /\ mode = ModeNormal
    /\ remote_configurations \in stores
    /\ saved = save_config(remote_configurations)
    /\ selected = Some(0)
    /\ exit_flag = FALSE
    /\ jobs = EmptyJobs
    /\ app_result = "none"
    /\ run_result = "none"
    /\ session = [keys |-> keys, typed |-> typed, jobs |-> njobs,
                  edits |-> edits, leaves |-> leaves,
                  cooperative |-> cooperative]

\* Sessions of the job orchestration: the user browses, triggers jobs and
\* leaves; the engine answers as it likes.
Init == InitWith(InitStores, BrowseKeys, 0, MaxJobs, 0, TRUE, FALSE)

\* Sessions of the mode machine: the user presses every key in every mode,
\* triggers one job and leaves; the store is browsed, not changed.
ModeInit == InitWith(InitStores, Keys, 0, 1, 0, TRUE, FALSE)

\* Sessions that change the store: no job is triggered, nothing is typed.
EditInit == InitWith(EditStores, EditKeys, 0, 0, MaxEdits, TRUE, FALSE)

\* Sessions at the edit buffer: characters are typed, the store is not
\* changed.
TypeInit == InitWith(EditStores, TypeKeys, MaxTyped, 0, 0, TRUE, FALSE)

\* Sessions that change a store the deletions can empty.
ShrinkInit == InitWith(ShrinkStores, EditKeys, 0, 0, MaxEdits, TRUE, FALSE)

\* Sessions with a cooperative engine in which the user stays.
LiveInit == InitWith(InitStores, BrowseKeys, 0, MaxJobs, 0, FALSE, TRUE)

(***************************************************************************)
(* The engine's answers.                                                   *)
(***************************************************************************)
\* Rclone::job_status: Err (the call failed or its output is no JSON), or
\* a JSON value: its "finished" member (true, false, or absent / no bool)
\* and the rest, which decodes to a JobStatus or does not (status None).
\* A cooperative engine answers every call with a well-formed value.
JobStatusResponses ==
    { << "Ok", [finished |-> "true", status |-> Some(p)] >> :
        p \in FinishedPayloads } \cup
    { << "Ok", [finished |-> "false", status |-> Some(RunningPayload)] >> } \cup
    IF session.cooperative THEN {}
    ELSE { << "Err" >>,
           << "Ok", [finished |-> "absent", status |-> Some(RunningPayload)] >>,
           << "Ok", [finished |-> "true", status |-> None] >>,
           << "Ok", [finished |-> "absent", status |-> None] >> }

\* Rclone::sync: Err, or a JSON value whose "jobid" is a u64 or is not.
\* The engine numbers the jobs it accepts 1, 2, ...
SyncResponses ==
    { << "Ok", Some(next_job_id) >> } \cup
    IF session.cooperative THEN {} ELSE { << "Err" >>, << "Ok", None >> }

(***************************************************************************)
(* Worker: GalionApp::background_thread.                                   *)
(***************************************************************************)
\* One visit of the for loop over tracking_jobs.clone(): the JobsList after
\* it, and whether serde_json::from_value decoded the status (ok); a decode
\* error leaves the loop by the ? operator.
\* The visit with a failed call of Rclone::job_status taken as fatal.
PollEntryErrFatal(tracking, job_sync_data, job_state, resp) ==
    IF job_state[1] = "Done"
    THEN [ok |-> TRUE, jobs |-> tracking]
    ELSE IF resp[1] = "Ok"
    THEN IF ~IsSome(resp[2].status)
         THEN [ok |-> FALSE, jobs |-> tracking]
         ELSE IF resp[2].finished = "true"
         THEN [ok |-> TRUE,
               jobs |-> MapInsert(tracking, job_sync_data,
                                  Done(Unwrap(resp[2].status)))]
         ELSE [ok |-> TRUE,
               jobs |-> MapInsert(tracking, job_sync_data,
                                  Pending(Unwrap(resp[2].status)))]
    ELSE [ok |-> FALSE, jobs |-> tracking]

\* The visit without the "skip done job" arm.
PollEntryNoSkip(tracking, job_sync_data, job_state, resp) ==
    IF resp[1] = "Ok"
    THEN IF ~IsSome(resp[2].status)
         THEN [ok |-> FALSE, jobs |-> tracking]
         ELSE IF resp[2].finished = "true"
         THEN [ok |-> TRUE,
               jobs |-> MapInsert(tracking, job_sync_data,
                                  Done(Unwrap(resp[2].status)))]
         ELSE [ok |-> TRUE,
               jobs |-> MapInsert(tracking, job_sync_data,
                                  Pending(Unwrap(resp[2].status)))]
    ELSE [ok |-> TRUE, jobs |-> tracking]

PollEntry(tracking, job_sync_data, job_state, resp) ==
    IF job_state[1] = "Done"
    THEN [ok |-> TRUE, jobs |-> tracking]   \* skip done job
    ELSE IF resp[1] = "Ok"
    THEN LET value_job_status == resp[2]
             is_finished == value_job_status.finished
         IN IF ~IsSome(value_job_status.status)
            THEN [ok |-> FALSE, jobs |-> tracking]
            ELSE IF is_finished = "true"
            THEN [ok |-> TRUE,
                  jobs |-> MapInsert(tracking, job_sync_data,
                                     Done(Unwrap(value_job_status.status)))]
            ELSE [ok |-> TRUE,
                  jobs |-> MapInsert(tracking, job_sync_data,
                                     Pending(Unwrap(value_job_status.status)))]
    ELSE [ok |-> TRUE, jobs |-> tracking]

\* The arm that inserts the identity as the command carries it.
SubmitAcceptedPlaceholder(tracking, sync_data_received, job) ==
    IF IsSome(job) THEN MapInsert(tracking, sync_data_received, Sent)
    ELSE tracking

\* SyncJob::Sync arm: the JobsList after an answer Ok(job) of Rclone::sync.
SubmitAccepted(tracking, sync_data_received, job) ==
    IF IsSome(job)
    THEN MapInsert(tracking, [sync_data_received EXCEPT !.job_id = Unwrap(job)],
                   Sent)
    ELSE tracking

\* The head of the loop that polls only when every job is waiting.
WLoopAllWaiting ==
    /\ wpc = "loop"
    /\ IF /\ DOMAIN tracking_jobs # {}
          /\ \A k \in DOMAIN tracking_jobs : is_waiting(tracking_jobs[k])
       THEN /\ wpc' = "poll"
            /\ poll_iter' = [i \in 1..Cardinality(DOMAIN tracking_jobs) |->
                   LET k == SortedKeys(DOMAIN tracking_jobs)[i]
                   IN << k, tracking_jobs[k] >>]
       ELSE /\ wpc' = "recv"
            /\ poll_iter' = << >>
    /\ UNCHANGED << tracking_jobs, thread_err, chan_vars, next_job_id, fe_vars,
                    session >>

\* The head of the loop: is_jobs_waiting, and the clone the for loop walks.
WLoop ==
    /\ wpc = "loop"
    /\ IF \E k \in DOMAIN tracking_jobs : is_waiting(tracking_jobs[k])
       THEN /\ wpc' = "poll"
            /\ poll_iter' = [i \in 1..Cardinality(DOMAIN tracking_jobs) |->
                   LET k == SortedKeys(DOMAIN tracking_jobs)[i]
                   IN << k, tracking_jobs[k] >>]
       ELSE /\ wpc' = "recv"
            /\ poll_iter' = << >>
    /\ UNCHANGED << tracking_jobs, thread_err, chan_vars, next_job_id, fe_vars,
                    session >>

\* One visit of the for loop, Rclone::job_status answering resp.
WPollWith(resp) ==
    /\ wpc = "poll"
    /\ poll_iter # << >>
    /\ LET after == PollEntry(tracking_jobs, Head(poll_iter)[1],
                                Head(poll_iter)[2], resp)
         IN IF ~after.ok
            THEN /\ wpc' = "failed"
                 /\ thread_err' = "decode"
                 /\ poll_iter' = << >>
                 /\ UNCHANGED tracking_jobs
            ELSE /\ tracking_jobs' = after.jobs
                 /\ poll_iter' = Tail(poll_iter)
                 /\ UNCHANGED << wpc, thread_err >>
    /\ UNCHANGED << chan_vars, next_job_id, fe_vars, session >>

WPoll == \E resp \in JobStatusResponses : WPollWith(resp)

\* The publication that takes a dropped receiver for a failure of the loop.
WSendFailsWhenDropped ==
    /\ wpc = "poll"
    /\ poll_iter = << >>
    /\ IF ui_dropped
       THEN /\ wpc' = "failed"
            /\ UNCHANGED to_ui
       ELSE /\ Len(to_ui) < MaxQueue
            /\ to_ui' = Append(to_ui, EvSync(tracking_jobs))
            /\ wpc' = "try_recv"
    /\ UNCHANGED << tracking_jobs, poll_iter, thread_err, to_thread,
                    ui_dropped, next_job_id, fe_vars, session >>

\* The publication left out while an event is still queued for the front
\* end.
WSendUnlessQueued ==
    /\ wpc = "poll"
    /\ poll_iter = << >>
    /\ IF ui_dropped
       THEN /\ wpc' = "ok"
            /\ UNCHANGED to_ui
       ELSE /\ to_ui' = IF to_ui = << >> THEN << EvSync(tracking_jobs) >>
                        ELSE to_ui
            /\ wpc' = "try_recv"
    /\ UNCHANGED << tracking_jobs, poll_iter, thread_err, to_thread,
                    ui_dropped, next_job_id, fe_vars, session >>

\* tx_to_ui.send(ResultJob::Sync(tracking_jobs.clone()))
WSend ==
    /\ wpc = "poll"
    /\ poll_iter = << >>
    /\ IF ui_dropped
       THEN /\ wpc' = "ok"
            /\ UNCHANGED to_ui
       ELSE /\ Len(to_ui) < MaxQueue
            /\ to_ui' = Append(to_ui, EvSync(tracking_jobs))
            /\ wpc' = "try_recv"
    /\ UNCHANGED << tracking_jobs, poll_iter, thread_err, to_thread,
                    ui_dropped, next_job_id, fe_vars, session >>

\* match res_job: what the worker does with a received command.
Handle(res_job) ==
    IF res_job = CmdExit
    THEN /\ wpc' = "ok"
         /\ UNCHANGED << tracking_jobs, thread_err, next_job_id >>
    ELSE \E resp \in SyncResponses :
           IF resp[1] = "Err"
           THEN /\ wpc' = "failed"
                /\ thread_err' = "sync"
                /\ UNCHANGED << tracking_jobs, next_job_id >>
           ELSE /\ tracking_jobs' = SubmitAccepted(tracking_jobs, res_job[2], resp[2])
                /\ next_job_id' = IF IsSome(resp[2]) THEN next_job_id + 1
                                  ELSE next_job_id
                /\ wpc' = "loop"
                /\ UNCHANGED thread_err

\* The try_recv that takes the command sent last.
WTryRecvNewest ==
    /\ wpc = "try_recv"
    /\ IF to_thread # << >>
       THEN /\ to_thread' = SubSeq(to_thread, 1, Len(to_thread) - 1)
            /\ Handle(to_thread[Len(to_thread)])
       ELSE /\ wpc' = IF ui_dropped THEN "ok" ELSE "loop"
            /\ UNCHANGED << tracking_jobs, thread_err, to_thread, next_job_id >>
    /\ UNCHANGED << poll_iter, to_ui, ui_dropped, fe_vars, session >>

\* rx_to_ui.try_recv() and the match that follows
WTryRecv ==
    /\ wpc = "try_recv"
    /\ IF to_thread # << >>
       THEN /\ to_thread' = Tail(to_thread)
            /\ Handle(Head(to_thread))
       ELSE /\ wpc' = IF ui_dropped THEN "ok"      \* Disconnected
                      ELSE "loop"                  \* Empty: sleep, continue
            /\ UNCHANGED << tracking_jobs, thread_err, to_thread, next_job_id >>
    /\ UNCHANGED << poll_iter, to_ui, ui_dropped, fe_vars, session >>

\* rx_to_ui.recv() and the match that follows
WRecv ==
    /\ wpc = "recv"
    /\ IF to_thread # << >>
       THEN /\ to_thread' = Tail(to_thread)
            /\ Handle(Head(to_thread))
       ELSE /\ ui_dropped
            /\ wpc' = "ok"
            /\ UNCHANGED << tracking_jobs, thread_err, to_thread, next_job_id >>
    /\ UNCHANGED << poll_iter, to_ui, ui_dropped, fe_vars, session >>

\* The Err arm that returns the error without telling the front end.
WErrorPathSilent ==
    /\ wpc = "failed"
    /\ wpc' = "err"
    /\ UNCHANGED << tracking_jobs, poll_iter, thread_err, chan_vars,
                    next_job_id, fe_vars, session >>

\* The Err arm of match thread_loop(): tell the front end, return the error.
WErrorPath ==
    /\ wpc = "failed"
    /\ to_ui' = IF ui_dropped THEN to_ui ELSE Append(to_ui, EvExit)
    /\ wpc' = "err"
    /\ UNCHANGED << tracking_jobs, poll_iter, thread_err, to_thread,
                    ui_dropped, next_job_id, fe_vars, session >>

(***************************************************************************)
(* Front end: TuiApp::run and GalionApp::run_tui.                          *)
(***************************************************************************)
\* The front end's fields as the handlers take them.
Tui ==
    [mode |-> mode, remotes |-> remote_configurations, saved |-> saved,
     selected |-> selected, exit |-> exit_flag, jobs |-> jobs,
     out |-> << >>, panicked |-> FALSE]

\* Sender::send of each command of out, in order: a command is queued
\* unless the worker's receiver is dropped.
SendAll(queue, out) == IF WorkerReturned THEN queue ELSE queue \o out

\* Number of Submit commands in out.
Submits(out) == Cardinality({ i \in 1..Len(out) : out[i][1] = "Sync" })

\* Whether the key types a character into the edit buffer.
Types(t, key) ==
    /\ t.mode[1] = "EditString"
    /\ IsCode(key, "Char")
    /\ ~IsHardInterrupt(key)

\* The receipt that takes the newest queued event instead of the oldest.
FeTryRecvNewest ==
    /\ fpc = "recv"
    /\ IF to_ui # << >>
       THEN /\ to_ui' = SubSeq(to_ui, 1, Len(to_ui) - 1)
            /\ IF to_ui[Len(to_ui)] = EvExit
               THEN exit_flag' = TRUE /\ UNCHANGED jobs
               ELSE jobs' = to_ui[Len(to_ui)][2] /\ UNCHANGED exit_flag
       ELSE UNCHANGED << to_ui, exit_flag, jobs >>
    /\ fpc' = "events"
    /\ UNCHANGED << worker_vars, to_thread, ui_dropped, next_job_id, mode,
                    remote_configurations, saved, selected, app_result,
                    run_result, session >>

\* if let Ok(rx_from_thread) = self.rx_from_thread.try_recv() { ... }
FeTryRecv ==
    /\ fpc = "recv"
    /\ IF to_ui # << >>
       THEN /\ to_ui' = Tail(to_ui)
            /\ IF Head(to_ui) = EvExit
               THEN exit_flag' = TRUE /\ UNCHANGED jobs
               ELSE jobs' = Head(to_ui)[2] /\ UNCHANGED exit_flag
       ELSE UNCHANGED << to_ui, exit_flag, jobs >>
    /\ fpc' = "events"
    /\ UNCHANGED << worker_vars, to_thread, ui_dropped, next_job_id, mode,
                    remote_configurations, saved, selected, app_result,
                    run_result, session >>

\* The TuiApp is dropped (TuiApp::run has returned, or the front end
\* unwinds from a panic): its fields are gone, its channel ends are dropped
\* and the events still queued for it are discarded.
\* What is kept of the mode is which mode the front end was in.
ModeDropped(last) == << "Dropped", last >>

DropTuiApp ==
    /\ ui_dropped' = TRUE
    /\ to_ui' = << >>
    /\ mode' = ModeDropped(mode[1])
    /\ selected' = None
    /\ exit_flag' = FALSE
    /\ jobs' = EmptyJobs

\* TuiApp::run returns.
Leave(result) ==
    /\ fpc' = "left"
    /\ app_result' = result
    /\ DropTuiApp

\* What one key press may do to the front end's fields: save_config
\* succeeds or fails, the build checks arithmetic overflow or does not.
KeyOutcomes(key) ==
    { handle_key_event(Tui, key, save_ok, checked) :
        save_ok \in BOOLEAN, checked \in BOOLEAN }

\* terminal.draw, then handle_events with a key press, and the loop test.
FeKeyWith(key) ==
    /\ fpc = "events"
    /\ \E t \in KeyOutcomes(key) :
         LET typed == IF Types(Tui, key) THEN 1 ELSE 0
             edits == IF t.remotes # remote_configurations THEN 1 ELSE 0
         IN /\ typed <= session.typed
            /\ Submits(t.out) <= session.jobs
            /\ edits <= session.edits
            /\ (t.exit /\ ~exit_flag) => session.leaves
            /\ IsSome(t.selected) => Unwrap(t.selected) <= MaxSelected
            /\ session' = [session EXCEPT !.typed = @ - typed,
                                          !.jobs = @ - Submits(t.out),
                                          !.edits = @ - edits]
            /\ remote_configurations' = t.remotes
            /\ saved' = t.saved
            /\ to_thread' = SendAll(to_thread, t.out)
            /\ IF t.panicked
               THEN /\ fpc' = "panicked"
                    /\ DropTuiApp
                    /\ UNCHANGED app_result
               ELSE IF t.exit
               THEN Leave("ok")
               ELSE /\ fpc' = "recv"
                    /\ mode' = t.mode
                    /\ selected' = t.selected
                    /\ exit_flag' = t.exit
                    /\ jobs' = t.jobs
                    /\ UNCHANGED << to_ui, ui_dropped, app_result >>
    /\ UNCHANGED << worker_vars, next_job_id, run_result >>

FeKey == \E key \in session.keys : FeKeyWith(key)

\* terminal.draw, then handle_events without a key press (the poll timed
\* out, or the event is no key press), and the loop test.
FeNoKey ==
    /\ fpc = "events"
    /\ IF exit_flag
       THEN Leave("ok")
       ELSE /\ fpc' = "recv"
            /\ UNCHANGED << to_ui, ui_dropped, mode, selected, exit_flag, jobs,
                            app_result >>
    /\ UNCHANGED << worker_vars, to_thread, next_job_id,
                    remote_configurations, saved, run_result, session >>

\* terminal.draw or handle_events returns an io::Error: run returns it.
FeIoError ==
    /\ fpc = "events"
    /\ session.leaves
    /\ Leave("err")
    /\ UNCHANGED << worker_vars, to_thread, next_job_id,
                    remote_configurations, saved, run_result, session >>

\* The return that forgets what the worker returned.
run_tui_returnAppOnly(join_ok, thread_result, app) ==
    IF ~join_ok THEN "err" ELSE app

\* The end of GalionApp::run_tui: sync_handler.join().map_err(..)?, then
\* thread_result?, then app_result.
run_tui_return(join_ok, thread_result, app) ==
    IF ~join_ok THEN "err"
    ELSE IF thread_result = "err" THEN "err"
    ELSE app

\* sync_handler.join(), thread_result?, app_result: nothing in the worker's
\* code panics, the join succeeds.
FeJoin ==
    /\ fpc = "left"
    /\ WorkerReturned
    /\ fpc' = "joined"
    /\ run_result' = run_tui_return(TRUE, wpc, app_result)
    /\ UNCHANGED << worker_vars, chan_vars, next_job_id, mode,
                    remote_configurations, saved, selected, exit_flag, jobs,
                    app_result, session >>

Worker == WLoop \/ WPoll \/ WSend \/ WTryRecv \/ WRecv \/ WErrorPath
FrontEnd == FeTryRecv \/ FeKey \/ FeNoKey \/ FeIoError \/ FeJoin

Next == Worker \/ FrontEnd

Spec == Init /\ [][Next]_vars

ModeSpec == ModeInit /\ [][Next]_vars

\* Scheduling: the worker thread runs and each call of the engine returns;
\* each pass of TuiApp::run completes (event::poll has a timeout); join
\* returns once the worker has.
Fairness ==
    /\ WF_vars(Worker)
    /\ WF_vars(FeTryRecv)
    /\ WF_vars(FeKey \/ FeNoKey \/ FeIoError)
    /\ WF_vars(FeJoin)

FairSpec == Init /\ [][Next]_vars /\ Fairness

\* The steps of a session without jobs: the worker blocks in recv until
\* the front end leaves.
IdleNext == WLoop \/ WRecv \/ FrontEnd

EditSpec == EditInit /\ [][IdleNext]_vars

TypeSpec == TypeInit /\ [][IdleNext]_vars

ShrinkSpec == ShrinkInit /\ [][IdleNext]_vars

\* Rclone::job_status reports job id, which is Sent or Pending, finished.
WPollFinished(id) ==
    /\ poll_iter # << >>
    /\ Head(poll_iter)[1].job_id = id
    /\ is_waiting(Head(poll_iter)[2])
    /\ \E resp \in JobStatusResponses :
          /\ resp[1] = "Ok"
          /\ resp[2].finished = "true"
          /\ WPollWith(resp)

\* The steps of a session with a cooperative engine in which the user
\* stays: the worker never fails and the front end never leaves.
LiveNext ==
    \/ WLoop \/ WPoll \/ WSend \/ WTryRecv \/ WRecv
    \/ FeTryRecv \/ FeKey \/ FeNoKey

\* A cooperative engine reports every job finished in the end: a job polled
\* again and again is not reported unfinished for ever.
LiveSpec ==
    /\ LiveInit /\ [][LiveNext]_vars
    /\ WF_vars(WLoop \/ WPoll \/ WSend \/ WTryRecv \/ WRecv)
    /\ WF_vars(FeTryRecv)
    /\ WF_vars(FeKey \/ FeNoKey)
    /\ \A id \in 1..MaxJobs : SF_vars(WPollFinished(id))


(***************************************************************************)
(* Properties of the worker's JobsList.                                    *)
(***************************************************************************)
\* Sent, Pending, Done in the order a job goes through them.
StateRank(state) ==
    CASE state[1] = "Sent" -> 0
      [] state[1] = "Pending" -> 1
      [] state[1] = "Done" -> 2

\* C1: in every step, whatever the interleaving of poll cycles and Submit
\* commands, every entry of the worker's JobsList stays in it, an entry
\* whose state is Done keeps exactly that state, and no entry moves
\* backwards in the order Sent, Pending, Done.
C1_DoneIsTerminal ==
    [][\A k \in DOMAIN tracking_jobs :
          /\ k \in DOMAIN tracking_jobs'
          /\ StateRank(tracking_jobs'[k]) >= StateRank(tracking_jobs[k])
          /\ tracking_jobs[k][1] = "Done" =>
                tracking_jobs'[k] = tracking_jobs[k]]_vars

\* A poll cycle stands before an entry that is Done while a job submitted
\* later is in the JobsList as well.
C1_Witness ==
    /\ wpc = "poll"
    /\ poll_iter # << >>
    /\ Head(poll_iter)[2][1] = "Done"
    /\ \E k \in DOMAIN tracking_jobs :
          /\ k.job_id > Head(poll_iter)[1].job_id
          /\ is_waiting(tracking_jobs[k])

\* The identities the running poll cycle has still to visit.
ToVisit == { poll_iter[i][1] : i \in 1..Len(poll_iter) }

\* C3: when Rclone::job_status fails (a transport error) for an entry that
\* is Sent or Pending, the visit leaves the JobsList as it is, the worker
\* stays in its poll cycle, no error is recorded and nothing is sent to the
\* front end; and every poll cycle the worker starts visits every entry
\* that is Sent or Pending, so the entry is polled again in the next one.
C3_PollErrorIsRetried ==
    /\ [][(WPollWith(<< "Err" >>) /\ is_waiting(Head(poll_iter)[2])) =>
            /\ tracking_jobs' = tracking_jobs
            /\ is_waiting(tracking_jobs'[Head(poll_iter)[1]])
            /\ wpc' = "poll"
            /\ thread_err' = "none"
            /\ to_ui' = to_ui]_vars
    /\ [][(wpc = "loop" /\ wpc' # "loop") =>
            \A k \in DOMAIN tracking_jobs :
               is_waiting(tracking_jobs[k]) =>
                  /\ wpc' = "poll"
                  /\ \E i \in 1..Len(poll_iter') :
                        poll_iter'[i] = << k, tracking_jobs[k] >>]_vars

\* An entry the running poll cycle has visited is still Sent: the call for
\* it failed (every answer that is a value moves a Sent entry or is fatal).
C3_Witness ==
    /\ wpc = "poll"
    /\ \E k \in DOMAIN tracking_jobs :
          /\ tracking_jobs[k] = Sent
          /\ k \notin ToVisit

\* The worker takes a Submit command off the command channel.
ConsumesSubmit ==
    /\ wpc \in {"try_recv", "recv"}
    /\ to_thread # << >>
    /\ Head(to_thread)[1] = "Sync"
    /\ to_thread' = Tail(to_thread)

\* C6: whatever Rclone::sync answers, the step that consumes a Submit
\* command ends in exactly one of two ways: the command's identity, re-keyed
\* with an id, is a new Sent entry of the JobsList, or the worker's loop has
\* failed with the error of the call.  (The code drops the command when the
\* answer is a value without a u64 "jobid".)
C6_SubmitInsertedOrError ==
    [][ConsumesSubmit =>
         LET data == Head(to_thread)[2]
             inserted ==
                 \E k \in DOMAIN tracking_jobs' \ DOMAIN tracking_jobs :
                    /\ k = [data EXCEPT !.job_id = k.job_id]
                    /\ tracking_jobs'[k] = Sent
             propagated == wpc' = "failed" /\ thread_err' = "sync"
         IN inserted # propagated]_vars

\* The front end takes the Terminated event off the snapshot channel.
ReceivesTerminated ==
    /\ fpc = "recv"
    /\ to_ui # << >>
    /\ Head(to_ui) = EvExit
    /\ to_ui' = Tail(to_ui)

\* C5: a failed call of Rclone::sync for a job the user triggered reaches
\* the user as the Error mode: the step in which the front end learns of
\* the failure leaves it in TuiMode::Error.  (The code makes the front end
\* exit instead: the failure ends the worker, and the event it sends sets
\* the exit flag.)
C5_SubmitErrorIsModal ==
    [][(ReceivesTerminated /\ thread_err = "sync") => mode'[1] = "Error"]_vars

(***************************************************************************)
(* Properties of the two channels.                                         *)
(***************************************************************************)
\* Every job of a is in b, and no further back.
SnapshotLeq(a, b) ==
    \A k \in DOMAIN a :
       /\ k \in DOMAIN b
       /\ StateRank(b[k]) >= StateRank(a[k])

\* The snapshots queued on the snapshot channel, oldest first.
QueuedSnapshots == SelectSeq(to_ui, LAMBDA ev : ev[1] = "Sync")

\* The front end's view, the queued snapshots and the worker's JobsList.
SnapshotChain ==
    << jobs >> \o [i \in 1..Len(QueuedSnapshots) |-> QueuedSnapshots[i][2]]
        \o << tracking_jobs >>

\* C7: while the front end lives, the snapshot channel changes only by the
\* worker appending an event - a snapshot equal to its whole JobsList, or
\* Terminated - and by the front end taking the oldest one; the front end's
\* view changes only to the snapshot it takes, as a whole; the view, the
\* queued snapshots from oldest to newest and the JobsList are in order,
\* none further back than the next; and no job of the view disappears or
\* moves backwards in the order Sent, Pending, Done.
C7_SnapshotsInOrder ==
    /\ [](\A i \in 1..(Len(SnapshotChain) - 1) :
             SnapshotLeq(SnapshotChain[i], SnapshotChain[i + 1]))
    /\ [][~ui_dropped' =>
            /\ to_ui' # to_ui =>
                  \/ to_ui' = Append(to_ui, EvSync(tracking_jobs))
                  \/ to_ui' = Append(to_ui, EvExit)
                  \/ to_ui' = Tail(to_ui)
            /\ jobs' # jobs =>
                  /\ to_ui # << >>
                  /\ Head(to_ui) = EvSync(jobs')
                  /\ to_ui' = Tail(to_ui)
            /\ SnapshotLeq(jobs, jobs')]_vars

\* The front end shows one snapshot, a newer and different one is queued,
\* and the worker's JobsList has moved on from both.
C7_Witness ==
    /\ ~ui_dropped
    /\ jobs # EmptyJobs
    /\ Len(to_ui) = MaxQueue
    /\ to_ui[1][1] = "Sync" /\ to_ui[1][2] # jobs
    /\ to_ui[2][1] = "Sync" /\ to_ui[2][2] # to_ui[1][2]
    /\ tracking_jobs # to_ui[2][2]

\* C8: a key press, whatever the key and the mode, leaves the worker's
\* JobsList as it is and, unless the front end ends with it, the front
\* end's job view as well; the view of a living front end changes only in
\* the step that takes a snapshot off the snapshot channel, to that
\* snapshot; and the JobsList changes only in a visit of the poll cycle and
\* in the step that consumes a Submit command.
C8_WorkerIsOnlyWriter ==
    /\ [][(\E key \in Keys : FeKeyWith(key)) =>
            /\ tracking_jobs' = tracking_jobs
            /\ ui_dropped' \/ jobs' = jobs]_vars
    /\ [][(jobs' # jobs /\ ~ui_dropped') =>
            /\ fpc = "recv"
            /\ to_ui # << >>
            /\ Head(to_ui) = EvSync(jobs')]_vars
    /\ [][tracking_jobs' # tracking_jobs =>
            \/ wpc = "poll" /\ poll_iter # << >>
            \/ ConsumesSubmit]_vars

\* The front end shows a job while it is in a mode other than Normal and
\* the worker's JobsList has moved on: keys have been pressed since the
\* snapshot was taken.
C8_Witness ==
    /\ jobs # EmptyJobs
    /\ mode[1] \in {"Error", "Delete", "EditString"}
    /\ tracking_jobs # jobs
    /\ fpc = "recv"

(***************************************************************************)
(* Properties of leaving.                                                  *)
(***************************************************************************)
\* Ctrl + c
HardInterrupt == KeyCtrl(Chr.c)

\* C10: wherever the front end handles events, in Normal, Error, Delete or
\* EditString mode, all that handling Ctrl + c does to its fields is to set
\* the exit flag and to send Exit: mode, edit buffer, selection, store and
\* the persisted store are as before; and the step that handles it queues
\* Exit for the worker (unless the worker has returned and dropped its
\* receiver), leaves the store alone and ends TuiApp::run with Ok.
C10_HardInterruptInEveryMode ==
    /\ [](fpc = "events" =>
            /\ mode[1] \in {"Normal", "Error", "Delete", "EditString"}
            /\ KeyOutcomes(HardInterrupt) =
                  {[Tui EXCEPT !.exit = TRUE, !.out = << CmdExit >>]})
    /\ [][FeKeyWith(HardInterrupt) =>
            /\ to_thread' = IF WorkerReturned THEN to_thread
                            ELSE Append(to_thread, CmdExit)
            /\ remote_configurations' = remote_configurations
            /\ saved' = saved
            /\ fpc' = "left"
            /\ app_result' = "ok"]_vars

\* The front end has left from EditString mode without an error and Exit
\* is the last command queued for the worker: Ctrl + c was pressed while
\* the edit buffer was open.
C10_Witness ==
    /\ fpc = "left"
    /\ app_result = "ok"
    /\ mode = ModeDropped("EditString")
    /\ to_thread # << >>
    /\ to_thread[Len(to_thread)] = CmdExit

(***************************************************************************)
(* Liveness.                                                               *)
(***************************************************************************)
\* The JobsList holds the job the engine numbered id / holds it as Done.
Tracked(id) == \E k \in DOMAIN tracking_jobs : k.job_id = id

TrackedDone(id) ==
    \E k \in DOMAIN tracking_jobs :
       k.job_id = id /\ tracking_jobs[k][1] = "Done"

\* C2: with an engine that answers every call with a well-formed value and
\* does not report a job unfinished for ever, and whatever Submit commands
\* the front end sends, every job that enters the worker's JobsList is Done
\* in the end.
C2_EveryJobIsDone ==
    \A id \in 1..MaxJobs : Tracked(id) ~> TrackedDone(id)

\* All the jobs of the session are Done.
C2_Witness ==
    /\ Cardinality(DOMAIN tracking_jobs) = MaxJobs
    /\ \A id \in 1..MaxJobs : TrackedDone(id)

\* TuiApp::run is over.
OutOfLoop == fpc \in {"left", "joined", "panicked"}

\* C4: when decoding a job's status fails, background_thread on its way out
\* appends Exit to the events queued for the front end (if the front end
\* still lives), behind the snapshots already queued; the front end that
\* takes Exit off the channel sets its exit flag; and once the worker has
\* failed so, the front end's loop ends.
C4_DecodeErrorEndsFrontEnd ==
    /\ [][(wpc = "failed" /\ wpc' = "err") =>
            to_ui' = IF ui_dropped THEN to_ui ELSE Append(to_ui, EvExit)]_vars
    /\ [][ReceivesTerminated => (exit_flag' /\ jobs' = jobs)]_vars
    /\ (thread_err = "decode") ~> OutOfLoop

\* After a decode failure the front end, showing a snapshot it took before,
\* has taken Exit off the channel and is about to leave its loop.
C4_Witness ==
    /\ thread_err = "decode"
    /\ wpc = "err"
    /\ fpc = "events"
    /\ exit_flag
    /\ jobs # EmptyJobs

\* The user quits: the front end leaves its loop of its own accord.
UserQuits ==
    /\ fpc = "events"
    /\ ~exit_flag
    /\ fpc' = "left"
    /\ app_result' = "ok"

\* C9: the step in which the user quits (q or Esc in Normal mode, Ctrl + c
\* anywhere) queues Exit for the worker, unless the worker has returned
\* already; and once TuiApp::run has returned, wherever the worker is -
\* blocked in recv, in a poll cycle, or with Submit commands to handle
\* before Exit - the worker returns and run_tui gets past join.
C9_QuitJoinsWorker ==
    /\ [][UserQuits =>
            to_thread' = IF WorkerReturned THEN to_thread
                         ELSE Append(to_thread, CmdExit)]_vars
    /\ (fpc = "left") ~> (WorkerReturned /\ fpc = "joined")

\* The user has quit while the worker is in a poll cycle and a Submit
\* command is queued before Exit.
C9_Witness ==
    /\ fpc = "left"
    /\ app_result = "ok"
    /\ wpc = "poll"
    /\ Len(to_thread) = 2
    /\ to_thread[1][1] = "Sync"
    /\ to_thread[2] = CmdExit

(***************************************************************************)
(* Properties of the store.                                                *)
(***************************************************************************)
\* The entries of origin RcloneConfig, in the order of the store.
RECURSIVE FilterRclone(_)
FilterRclone(rs) ==
    IF rs = << >> THEN << >>
    ELSE IF Head(rs).config_origin = RcloneConfig
         THEN << Head(rs) >> \o FilterRclone(Tail(rs))
         ELSE FilterRclone(Tail(rs))

\* C11: the entries of origin RcloneConfig - how many they are, their order
\* and their fields - are what they were when the store was loaded: no step
\* changes them, and wherever the front end handles events no key, whatever
\* it is and whether save_config succeeds or not, leaves a store in which
\* they differ.
C11_EngineEntriesUntouched ==
    /\ [][FilterRclone(remote_configurations') =
             FilterRclone(remote_configurations)]_vars
    /\ [](fpc = "events" =>
            \A key \in Keys : \A t \in KeyOutcomes(key) :
               FilterRclone(t.remotes) = FilterRclone(remote_configurations))

\* The store that held UserB and two engine remotes after two changes: the
\* edit buffer opened on the first engine remote was committed, UserB was
\* deleted; the engine remotes are there as loaded.
C11_Witness ==
    remote_configurations =
        << Remote(EngineR.remote_name, Some(<< >>), EngineR.remote_dest,
                  GalionConfig),
           EngineR, EngineS >>

\* The keys of the delete-request.
DeleteRequestKeys == { KeyChar(Chr.r), << "Delete" >>, << "Backspace" >> }

\* The front end handles events in Normal mode and the selection designates
\* an entry of origin RcloneConfig.
EngineEntrySelected ==
    /\ fpc = "events"
    /\ mode = ModeNormal
    /\ IsSome(selected)
    /\ Unwrap(selected) < Len(remote_configurations)
    /\ remote_configurations[Unwrap(selected) + 1].config_origin = RcloneConfig

\* C12: in Normal mode with an entry of origin RcloneConfig selected, all a
\* delete-request does to the front end's fields is to set the mode to
\* Error: the store, the persisted store and the selection are as before
\* and nothing is sent; and the step that handles it leaves the front end
\* in Error mode, not in Delete mode, with the store and the configuration
\* file unchanged.
C12_DeleteRequestOnEngineEntry ==
    /\ [](EngineEntrySelected =>
            \A key \in DeleteRequestKeys :
               KeyOutcomes(key) =
                  {[Tui EXCEPT !.mode = ModeError(
                       "Cannot delete a remote from the rclone config")]})
    /\ [][(EngineEntrySelected /\ \E key \in DeleteRequestKeys : FeKeyWith(key)) =>
            /\ mode'[1] = "Error"
            /\ remote_configurations' = remote_configurations
            /\ saved' = saved
            /\ selected' = selected]_vars

\* After a change of the store, the delete-request was refused on an engine
\* remote that is not the head of the store.
C12_Witness ==
    /\ mode = ModeError("Cannot delete a remote from the rclone config")
    /\ remote_configurations \notin EditStores
    /\ IsSome(selected) /\ Unwrap(selected) > 0
    /\ remote_configurations[1].config_origin = GalionConfig

\* The keys of the actions that may be illegal: delete-request,
\* duplicate-request, trigger-job; and the keys that dismiss an error.
IllegalKeys == DeleteRequestKeys \cup { KeyChar(Chr.d), << "Right" >> }
DismissKeys == { KeyChar(Chr.q), << "Esc" >> }

\* The front end's fields after n rounds of dismissing the error and
\* pressing key again.
RECURSIVE Cycles(_, _, _, _)
Cycles(t, key, dismiss, n) ==
    IF n = 0 THEN t
    ELSE Cycles(handle_key_event(handle_key_event(t, dismiss, TRUE, TRUE),
                                 key, TRUE, TRUE),
                key, dismiss, n - 1)

\* C13: wherever the front end handles events in Normal mode, an action
\* that is refused (a delete-request, duplicate-request or trigger-job that
\* ends in Error mode) changes nothing but the mode and sends nothing;
\* dismissing the error gives back the fields as they were before the
\* action; and dismissing and repeating the action, once or several times,
\* ends in the same Error mode with the same message, store, persisted
\* store and selection.
C13_RefusedActionIsIdempotent ==
    (fpc = "events" /\ mode = ModeNormal) =>
       \A key \in IllegalKeys :
          LET refused == handle_key_event(Tui, key, TRUE, TRUE)
          IN refused.mode[1] = "Error" =>
                /\ refused = [Tui EXCEPT !.mode = refused.mode]
                /\ \A dismiss \in DismissKeys :
                      /\ handle_key_event(refused, dismiss, TRUE, TRUE) = Tui
                      /\ \A n \in 1..MaxCycles :
                            Cycles(refused, key, dismiss, n) = refused

\* After a change of the store, a trigger-job was refused on an entry other
\* than the head of the store.
C13_Witness ==
    /\ fpc = "recv"
    /\ mode[1] = "Error"
    /\ mode[2] = "Remote doesn't have a source - press e for edit"
    /\ remote_configurations \notin EditStores
    /\ IsSome(selected) /\ Unwrap(selected) > 0

(***************************************************************************)
(* Properties of the trigger-job.                                          *)
(***************************************************************************)
\* The front end handles events in Normal mode and the selection designates
\* an entry of the store.
EntrySelected ==
    /\ fpc = "events"
    /\ mode = ModeNormal
    /\ IsSome(selected)
    /\ Unwrap(selected) < Len(remote_configurations)

\* The entry the selection designates.
SelectedEntry == remote_configurations[Unwrap(selected) + 1]

\* The selected entry has no source or has no destination.
IncompleteEntrySelected ==
    /\ EntrySelected
    /\ ~IsSome(SelectedEntry.remote_src) \/ ~IsSome(SelectedEntry.remote_dest)

\* C14: in Normal mode with an entry selected that has no source or no
\* destination, all the trigger-job (Right) does to the front end's fields
\* is to set the mode to Error, with the message of the missing source
\* or, the source being there, of the missing destination: nothing is
\* sent, store and selection are as before; and the step that handles it
\* leaves the command channel, the store and the configuration file
\* unchanged and the front end, unless the exit flag the worker's Exit
\* event has set ends it, in Error mode with the selection unchanged.
C14_TriggerOnIncompleteEntry ==
    /\ [](IncompleteEntrySelected =>
            KeyOutcomes(<< "Right" >>) =
               {[Tui EXCEPT !.mode = ModeError(
                    IF ~IsSome(SelectedEntry.remote_src)
                    THEN "Remote doesn't have a source - press e for edit"
                    ELSE "Remote doesn't have a destination - press e for edit")]})
    /\ [][(IncompleteEntrySelected /\ FeKeyWith(<< "Right" >>)) =>
            /\ to_thread' = to_thread
            /\ remote_configurations' = remote_configurations
            /\ saved' = saved
            /\ ui_dropped' \/ (mode'[1] = "Error" /\ selected' = selected)]_vars

\* The trigger-job was refused for a missing destination while the worker
\* waits for commands and none is queued.
C14_Witness ==
    /\ mode = ModeError("Remote doesn't have a destination - press e for edit")
    /\ fpc = "recv"
    /\ wpc = "recv"
    /\ to_thread = << >>
    /\ session.jobs = 1

\* The selected entry has a source and a destination.
CompleteEntrySelected ==
    /\ EntrySelected
    /\ IsSome(SelectedEntry.remote_src)
    /\ IsSome(SelectedEntry.remote_dest)

\* The Submit command of the selected entry: its name, source and
\* destination, and the placeholder id 0.
SelectedSubmit ==
    << "Sync", [job_id |-> 0,
                name |-> SelectedEntry.remote_name,
                src |-> SelectedEntry.remote_src[1],
                dest |-> SelectedEntry.remote_dest[1]] >>

\* C15: in Normal mode with an entry selected that has a source and a
\* destination, all the trigger-job (Right) does to the front end's fields
\* is to send one command, the Submit of the selected entry with job id 0:
\* mode, store and selection are as before; and the step that handles it
\* queues that one command for the worker (unless the worker has returned
\* and dropped its receiver), leaves the store and the configuration file
\* unchanged and the front end, unless the exit flag ends it, in Normal
\* mode.
C15_TriggerSendsOneSubmit ==
    /\ [](CompleteEntrySelected =>
            KeyOutcomes(<< "Right" >>) =
               {[Tui EXCEPT !.out = << SelectedSubmit >>]})
    /\ [][(CompleteEntrySelected /\ FeKeyWith(<< "Right" >>)) =>
            /\ to_thread' = IF WorkerReturned THEN to_thread
                            ELSE Append(to_thread, SelectedSubmit)
            /\ remote_configurations' = remote_configurations
            /\ saved' = saved
            /\ ui_dropped' \/ (mode' = ModeNormal /\ selected' = selected)]_vars

\* The Submit of UserA is queued for the worker and the front end goes on
\* in Normal mode.
C15_Witness ==
    /\ to_thread = << CmdSync([job_id |-> 0, name |-> UserA.remote_name,
                               src |-> << 115 >>, dest |-> << 100 >>]) >>
    /\ mode = ModeNormal
    /\ fpc = "recv"
    /\ session.jobs = 0

(***************************************************************************)
(* Properties of the keys of the JobsList.                                 *)
(***************************************************************************)
\* The JobsList, the snapshots queued for the front end and the front
\* end's view.
JobsLists ==
    { tracking_jobs, jobs } \cup
    { QueuedSnapshots[i][2] : i \in 1..Len(QueuedSnapshots) }

\* C16: the step in which the worker consumes a Submit command that the
\* engine accepts with an id puts into the JobsList, in state Sent, the
\* command's name, source and destination keyed with that id, and leaves
\* the other entries as they are; and no key of the JobsList, of a queued
\* snapshot or of the front end's view has job id 0, the engine numbering
\* its jobs from 1.
C16_AcceptedSubmitIsKeyedByEngineId ==
    /\ [][(ConsumesSubmit /\ next_job_id' # next_job_id) =>
            LET sync_data == [Head(to_thread)[2] EXCEPT !.job_id = next_job_id]
            IN /\ DOMAIN tracking_jobs' = DOMAIN tracking_jobs \cup {sync_data}
               /\ tracking_jobs'[sync_data] = Sent
               /\ \A k \in DOMAIN tracking_jobs :
                     tracking_jobs'[k] = tracking_jobs[k]]_vars
    /\ [](\A list \in JobsLists : \A k \in DOMAIN list : k.job_id # 0)

\* The same entry was submitted twice: the JobsList holds it under the ids
\* 1 and 2, and a snapshot with both is queued for the front end.
C16_Witness ==
    /\ \E k1, k2 \in DOMAIN tracking_jobs :
          /\ k1.job_id = 1 /\ k2.job_id = 2
          /\ k2 = [k1 EXCEPT !.job_id = 2]
    /\ \E i \in 1..Len(QueuedSnapshots) :
          Cardinality(DOMAIN QueuedSnapshots[i][2]) = 2

(***************************************************************************)
(* Properties of the edit buffer and of the commit.                        *)
(***************************************************************************)
\* The front end handles events with the edit buffer open.
Editing == fpc = "events" /\ mode[1] = "EditString"

\* The front end's fields as they are, after one more character (of two
\* bytes) is typed, and after one more Backspace.
BufferVariants ==
    { Tui,
      handle_key_event(Tui, KeyChar(Chr.eacute), TRUE, TRUE),
      handle_key_event(Tui, << "Backspace" >>, TRUE, TRUE) }

\* The configuration of a buffer's three texts, of origin GalionConfig.
Committed(b) ==
    [remote_name |-> b.edit_remote_name,
     remote_src |-> << b.edit_remote_src >>,
     remote_dest |-> << b.edit_remote_dest >>,
     config_origin |-> GalionConfig]

\* The store rs after the commit of buffer b on the entry at position i
\* (from 1): the entry replaced where it is if its origin is GalionConfig,
\* the new entry put before all the others if not.
StoreAfterCommit(rs, i, b) ==
    IF rs[i].config_origin = GalionConfig
    THEN [j \in 1..Len(rs) |-> IF j = i THEN Committed(b) ELSE rs[j]]
    ELSE [j \in 1..(Len(rs) + 1) |-> IF j = 1 THEN Committed(b) ELSE rs[j - 1]]

\* C17: wherever the edit buffer is open the selection designates an entry
\* of the store, and the commit (Enter) of the buffer - as it is, or after
\* one more character or Backspace - whether save_config succeeds or not,
\* leaves the store with the buffer's configuration in place of the selected
\* entry if that is of origin GalionConfig (same length), and put at the
\* head, before the unchanged selected entry, if it is not (length plus
\* one), every other entry as and where it was; and the step that handles
\* the commit changes the store so.
C17_CommitReplacesOrInsertsAtHead ==
    /\ [](Editing =>
            /\ IsSome(selected)
            /\ Unwrap(selected) < Len(remote_configurations)
            /\ \A t \in BufferVariants : \A save_ok \in BOOLEAN :
                  handle_key_event(t, << "Enter" >>, save_ok, TRUE).remotes =
                     StoreAfterCommit(remote_configurations,
                                      Unwrap(selected) + 1, t.mode[2]))
    /\ [][(Editing /\ FeKeyWith(<< "Enter" >>)) =>
            remote_configurations' =
               StoreAfterCommit(remote_configurations, Unwrap(selected) + 1,
                                mode[2])]_vars

\* Two commits have been made on the store that held UserB and two engine
\* remotes: one on the second engine remote, which put a new entry at the
\* head, and one on UserB, replaced where it was.
C17_Witness ==
    /\ Len(remote_configurations) = 4
    /\ remote_configurations[1] =
          Remote(EngineS.remote_name, Some(<< >>), EngineS.remote_dest,
                 GalionConfig)
    /\ remote_configurations[2] =
          Remote(UserB.remote_name, UserB.remote_src, Some(<< >>), GalionConfig)
    /\ remote_configurations[3] = EngineR
    /\ remote_configurations[4] = EngineS

\* C18: in Normal mode with an entry of origin GalionConfig selected,
\* whether its source and its destination are there or not, the
\* edit-request (e) followed at once by the commit (Enter) leaves at the
\* entry's place a configuration with the entry's name, source and
\* destination and of origin GalionConfig.  (The code turns a source or
\* destination that is None into Some of the empty text.)
C18_EditCommitRoundTrip ==
    (EntrySelected /\ SelectedEntry.config_origin = GalionConfig) =>
       LET opened == handle_key_event(Tui, KeyChar(Chr.e), TRUE, TRUE)
           committed == handle_key_event(opened, << "Enter" >>, TRUE, TRUE)
           result == committed.remotes[Unwrap(selected) + 1]
       IN /\ Len(committed.remotes) = Len(remote_configurations)
          /\ result.remote_name = SelectedEntry.remote_name
          /\ result.remote_src = SelectedEntry.remote_src
          /\ result.remote_dest = SelectedEntry.remote_dest
          /\ result.config_origin = GalionConfig

\* The cursor of the buffer b is within its active field: 0 at least, the
\* field's count of characters at most.
CursorInField(b) ==
    b.character_index \in 0..Len(ActiveInput(b))

\* C19: whenever the mode is EditString, the cursor is 0 at least and the
\* count of characters of the active field at most; and from such a state
\* no key (a character, Backspace, Left, Right, Tab, Down, Up among them)
\* leads to an EditString mode where it is not.
C19_CursorWithinActiveField ==
    (mode[1] = "EditString") =>
       /\ CursorInField(mode[2])
       /\ \A key \in Keys \cup TypeKeys :
            \A save_ok \in BOOLEAN :
               LET t == handle_key_event(Tui, key, save_ok, TRUE)
               IN (t.mode[1] = "EditString") => CursorInField(t.mode[2])

\* The cursor stands inside a field other than the name, after a character
\* of two bytes typed into it.
C19_Witness ==
    /\ mode[1] = "EditString"
    /\ mode[2].idx_string > 0
    /\ mode[2].character_index \in 1..(Len(ActiveInput(mode[2])) - 1)
    /\ \E i \in DOMAIN ActiveInput(mode[2]) :
         ActiveInput(mode[2])[i] = Chr.eacute
    /\ session.typed < MaxTyped

\* Characters of one, two, three and four bytes in UTF-8.
InsertedChars == { Chr.e, Chr.eacute, 8364, 128512 }

\* The buffer b with the field idx active and the cursor at ci.
BufferAt(b, idx, ci) ==
    [b EXCEPT !.idx_string = idx, !.character_index = ci]

\* C20: for every edit buffer the front end reaches, every one of its
\* three fields, every cursor from 0 to the field's count of characters
\* and every character of one to four bytes, enter_char followed by
\* delete_char gives back the field texts and the cursor (so on an empty
\* field at cursor 0 the field is empty and the cursor 0 afterwards); and
\* after every character key handled in EditString mode, delete_char on
\* the buffer it leaves gives back the buffer it found.
C20_InsertThenDeleteRestores ==
    /\ []((mode[1] = "EditString") =>
            \A idx \in 0..2 :
               \A ci \in 0..Len(ActiveInput(BufferAt(mode[2], idx, 0))) :
                  \A ch \in InsertedChars :
                     LET b == BufferAt(mode[2], idx, ci)
                     IN /\ enter_char(b, ch) # b
                        /\ delete_char(enter_char(b, ch)) = b)
    /\ [][\A key \in { KeyChar(Chr.e), KeyChar(Chr.eacute) } :
            (mode[1] = "EditString" /\ FeKeyWith(key) /\ mode'[1] = "EditString")
               => delete_char(mode'[2]) = mode[2]]_vars

\* A character of two bytes was typed into the empty destination field,
\* which the deletion before the cursor empties again.
C20_Witness ==
    /\ mode[1] = "EditString"
    /\ mode[2].idx_string = 2
    /\ mode[2].edit_remote_dest = << Chr.eacute >>
    /\ mode[2].character_index = 1
    /\ delete_char(mode[2]).edit_remote_dest = << >>
    /\ delete_char(mode[2]).character_index = 0

\* The select-next and select-previous bindings.
SelectKeys == { KeyChar(Chr.j), << "Down" >>, KeyChar(Chr.k), << "Up" >> }

UserPlaces(rs) == { i \in DOMAIN rs : rs[i].config_origin = GalionConfig }

\* The k-th of these places, counted from 1 in the order of the store.
UserPlace(rs, k) ==
    CHOOSE i \in UserPlaces(rs) :
       Cardinality({ j \in UserPlaces(rs) : j <= i }) = k

\* The file w holds the entries of origin GalionConfig of the store rs, all
\* of them, in the order of the store, and nothing else.
HoldsUserEntries(w, rs) ==
    /\ DOMAIN w = 1..Cardinality(UserPlaces(rs))
    /\ \A k \in DOMAIN w :
          /\ w[k].remote_name = rs[UserPlace(rs, k)].remote_name
          /\ w[k].remote_src = rs[UserPlace(rs, k)].remote_src
          /\ w[k].remote_dest = rs[UserPlace(rs, k)].remote_dest

\* The key makes the handler call save_config: confirm-yes on an entry of
\* origin GalionConfig in Delete mode, commit on an entry in EditString
\* mode.
Persists(key) ==
    /\ selected # None
    /\ Unwrap(selected) < Len(remote_configurations)
    /\ \/ /\ mode[1] = "Delete"
          /\ key \in { KeyChar(Chr.y), << "Enter" >> }
          /\ remote_configurations[Unwrap(selected) + 1].config_origin
                = GalionConfig
       \/ /\ mode[1] = "EditString"
          /\ key = << "Enter" >>

\* C22: wherever the front end handles events, a key that makes the
\* handler persist the store leaves, when the write succeeds, a file that
\* holds the entries of origin GalionConfig of the store as the handler
\* leaves it, all of them and in its order, and none of origin
\* RcloneConfig, and when it fails the file as it was; the store is the
\* same in both cases, the write does not touch it; no other key changes
\* the file; and every step that changes the file leaves it holding the
\* GalionConfig entries of the store.
C22_PersistWritesUserEntriesInOrder ==
    /\ [](fpc = "events" =>
            \A key \in Keys :
               LET written == handle_key_event(Tui, key, TRUE, TRUE)
                   failed == handle_key_event(Tui, key, FALSE, TRUE)
               IN /\ failed.saved = saved
                  /\ failed.remotes = written.remotes
                  /\ IF Persists(key)
                     THEN HoldsUserEntries(written.saved, written.remotes)
                     ELSE written.saved = saved)
    /\ [][saved' # saved =>
            HoldsUserEntries(saved', remote_configurations')]_vars

\* A commit on an entry of the engine has put a second entry of the user
\* before it, and the file holds the user's two entries.
C22_Witness ==
    /\ Len(remote_configurations) = 3
    /\ remote_configurations[3].config_origin = RcloneConfig
    /\ Len(saved) = 2
    /\ HoldsUserEntries(saved, remote_configurations)

\* C23: in Error mode, all a key other than Ctrl + c does to the front
\* end's fields is, for a dismissal (q, Esc), to set the mode to Normal
\* and, for any other key, nothing: message, store, file, selection and
\* job view are as before and nothing is sent; and the step that handles
\* such a key leaves the command channel, the store and the file
\* unchanged and the front end, unless the exit flag the worker's Exit
\* event has set ends it, with the selection and the job view it had and
\* in Normal mode after a dismissal, in the same Error mode otherwise.
C23_ErrorModeIgnoresAllButDismiss ==
    /\ []((fpc = "events" /\ mode[1] = "Error") =>
            \A key \in Keys \ { KeyCtrl(Chr.c) } :
               KeyOutcomes(key) =
                  { IF key \in DismissKeys
                    THEN [Tui EXCEPT !.mode = << "Normal" >>]
                    ELSE Tui })
    /\ [][\A key \in Keys \ { KeyCtrl(Chr.c) } :
            (mode[1] = "Error" /\ FeKeyWith(key)) =>
               /\ to_thread' = to_thread
               /\ remote_configurations' = remote_configurations
               /\ saved' = saved
               /\ \/ ui_dropped'
                  \/ /\ selected' = selected
                     /\ jobs' = jobs
                     /\ mode' = IF key \in DismissKeys
                                THEN << "Normal" >> ELSE mode]_vars

\* Keys are handled in Error mode while the job view shows a job and the
\* selection is on the second entry.
C23_Witness ==
    /\ fpc = "events"
    /\ mode[1] = "Error"
    /\ jobs # EmptyJobs
    /\ selected = Some(1)
    /\ ~exit_flag

\* C24: once run_tui is past the join, it has returned an error if the
\* worker returned one - after a status that does not decode or a
\* submission that failed, the worker's error is set and the worker did
\* return it - whatever TuiApp::run returned, and what TuiApp::run
\* returned if the worker returned Ok; and where the join is still to
\* come, a join that fails makes run_tui return an error whatever the
\* worker and TuiApp::run returned.
C24_WorkerErrorFailsRun ==
    /\ (fpc = "joined") =>
          /\ thread_err \in {"decode", "sync"} => wpc = "err"
          /\ wpc = "err" => run_result = "err"
          /\ wpc = "ok" => run_result = app_result
    /\ (fpc = "left") =>
          \A thread_result \in {"ok", "err"} :
             \A app \in {"ok", "err"} :
                run_tui_return(FALSE, thread_result, app) = "err"

\* TuiApp::run returned Ok, the worker the error of a failed submission:
\* run_tui has returned an error.
C24_Witness ==
    /\ fpc = "joined"
    /\ thread_err = "sync"
    /\ wpc = "err"
    /\ app_result = "ok"
    /\ run_result = "err"

\* Some job of the worker's JobsList is Sent or Pending.
SomeJobOutstanding ==
    \E k \in DOMAIN tracking_jobs :
       tracking_jobs[k][1] \in {"Sent", "Pending"}

\* The worker takes a command off the command channel.
TakesCommand ==
    /\ wpc \in {"try_recv", "recv"}
    /\ to_thread # << >>
    /\ to_thread' = Tail(to_thread)

\* C25: the worker is at its blocking recv only while no job of its
\* JobsList is Sent or Pending; from the head of its loop it goes to recv
\* if none is and to the poll cycle if one is; while it stays at recv the
\* JobsList does not change (no status is asked for) and no event is
\* queued for the front end (no snapshot is published); and a command it
\* takes while a job is Sent or Pending is taken by try_recv.
C25_BlocksOnlyWhenIdle ==
    /\ [](wpc = "recv" => ~SomeJobOutstanding)
    /\ [][(wpc = "loop" /\ wpc' # "loop") =>
            wpc' = IF SomeJobOutstanding THEN "poll" ELSE "recv"]_vars
    /\ [][(wpc = "recv" /\ wpc' = "recv") =>
            /\ tracking_jobs' = tracking_jobs
            /\ poll_iter' = poll_iter
            /\ Len(to_ui') <= Len(to_ui)]_vars
    /\ [][(TakesCommand /\ SomeJobOutstanding) => wpc = "try_recv"]_vars

\* The worker is blocked in recv, nothing queued for it, every job it has
\* tracked being Done.
C25_Witness ==
    /\ wpc = "recv"
    /\ to_thread = << >>
    /\ ~ui_dropped
    /\ Cardinality(DOMAIN tracking_jobs) = MaxJobs
    /\ \A k \in DOMAIN tracking_jobs : tracking_jobs[k][1] = "Done"

\* The keys a step adds to the worker's JobsList.
NewJobs == DOMAIN tracking_jobs' \ DOMAIN tracking_jobs

\* C26: a step that shortens the command queue is the worker's, at
\* try_recv or recv, and takes one command, the one sent first; the worker
\* is then out of try_recv and recv, back at the head of its loop or on
\* its way out, so one pass of the loop takes one command at most; for
\* Exit it returns Ok; for a Submit it calls Rclone::sync in that step,
\* once: at most one job enters the JobsList, with the name, source and
\* destination of that command, and when the call fails the command is
\* off the queue and the worker on its way out with the error; no other
\* step of the worker adds a job; and a worker on its way out or returned
\* takes no command and adds no job, a failed submission is not tried
\* again.
C26_OneCommandPerPassInOrder ==
    /\ [][Len(to_thread') < Len(to_thread) =>
            /\ wpc \in {"try_recv", "recv"}
            /\ to_thread' = Tail(to_thread)
            /\ wpc' \in {"loop", "ok", "failed"}
            /\ Head(to_thread) = CmdExit => (wpc' = "ok" /\ NewJobs = {})
            /\ Head(to_thread)[1] = "Sync" =>
                  /\ Cardinality(NewJobs) <= 1
                  /\ \A k \in NewJobs :
                        /\ k.name = Head(to_thread)[2].name
                        /\ k.src = Head(to_thread)[2].src
                        /\ k.dest = Head(to_thread)[2].dest
                  /\ wpc' = "failed" => (thread_err' = "sync" /\ NewJobs = {})
                  /\ wpc' \in {"loop", "failed"}]_vars
    /\ [][NewJobs # {} => Len(to_thread') < Len(to_thread)]_vars
    /\ [][(wpc \in {"failed", "err", "ok"}) =>
            /\ Len(to_thread') >= Len(to_thread)
            /\ tracking_jobs' = tracking_jobs
            /\ next_job_id' = next_job_id
            /\ thread_err' = thread_err
            /\ wpc' \in {"failed", "err", "ok"}]_vars

\* A submission has failed while a second Submit command is queued behind
\* it: the worker is on its way out.
C26_Witness ==
    /\ wpc = "failed"
    /\ thread_err = "sync"
    /\ to_thread # << >>
    /\ Head(to_thread)[1] = "Sync"
    /\ tracking_jobs = EmptyJobs

\* The worker moves on from the publication of a snapshot.
Publishes == wpc = "poll" /\ poll_iter = << >> /\ wpc' # "poll"

\* The worker moves on from try_recv or recv with no command queued.
FindsNoCommand ==
    wpc \in {"try_recv", "recv"} /\ to_thread = << >> /\ wpc' # wpc

\* C27: when the front end has dropped its channel ends, the worker that
\* publishes a snapshot, and the worker that finds the command channel
\* empty at try_recv or recv (the commands queued before the drop are
\* received first), returns Ok: no error is set and nothing is queued for
\* the front end; and a worker that returned Ok has no error, keeps none
\* and queues no event.
C27_DisconnectEndsWorkerCleanly ==
    /\ [][((Publishes \/ FindsNoCommand) /\ ui_dropped) =>
            /\ wpc' = "ok"
            /\ thread_err' = "none"
            /\ to_ui' = to_ui]_vars
    /\ [](wpc = "ok" => thread_err = "none")
    /\ [][wpc = "ok" =>
            /\ wpc' = "ok"
            /\ Len(to_ui') <= Len(to_ui)]_vars

\* TuiApp::run returned an io::Error, no Exit command was sent, and the
\* worker, a job of its JobsList still Sent or Pending, has returned Ok.
C27_Witness ==
    /\ wpc = "ok"
    /\ app_result = "err"
    /\ ui_dropped
    /\ thread_err = "none"
    /\ \E k \in DOMAIN tracking_jobs : tracking_jobs[k][1] = "Pending"

\* The confirm-yes bindings of the Delete mode.
ConfirmKeys == { KeyChar(Chr.y), << "Enter" >> }

\* The store rs without the entry at position i (from 1), the others as
\* and in the order they were.
StoreWithout(rs, i) ==
    [j \in 1..(Len(rs) - 1) |-> IF j < i THEN rs[j] ELSE rs[j + 1]]

\* C28: the step from Normal to Delete mode and the steps within Delete
\* mode keep the selection and the store, and in Delete mode the
\* selection designates an entry of origin GalionConfig; all confirm-yes
\* (y, Enter) does there is to take that entry out of the store, one
\* entry less and the others as and in the order they were, and, when
\* save_config succeeds, to write the store's GalionConfig entries to the
\* file and set the mode to Normal, when it fails, to set the mode to
\* Error with the file as it was; and the step that handles confirm-yes
\* changes the store so.
C28_ConfirmYesRemovesSelected ==
    /\ [][(mode[1] \in {"Normal", "Delete"} /\ mode'[1] = "Delete") =>
            /\ selected' = selected
            /\ remote_configurations' = remote_configurations]_vars
    /\ []((fpc = "events" /\ mode[1] = "Delete") =>
            /\ selected # None
            /\ Unwrap(selected) < Len(remote_configurations)
            /\ remote_configurations[Unwrap(selected) + 1].config_origin
                  = GalionConfig
            /\ \A key \in ConfirmKeys :
                  LET removed == StoreWithout(remote_configurations,
                                              Unwrap(selected) + 1)
                      written == handle_key_event(Tui, key, TRUE, TRUE)
                      failed == handle_key_event(Tui, key, FALSE, TRUE)
                  IN /\ written.remotes = removed
                     /\ HoldsUserEntries(written.saved, removed)
                     /\ written.mode = << "Normal" >>
                     /\ failed.remotes = removed
                     /\ failed.saved = saved
                     /\ failed.mode[1] = "Error"
                     /\ \A t \in {written, failed} :
                           /\ t.selected = selected
                           /\ t.out = << >>
                           /\ ~t.panicked)
    /\ [][\A key \in ConfirmKeys :
            (mode[1] = "Delete" /\ FeKeyWith(key)) =>
               /\ remote_configurations' =
                     StoreWithout(remote_configurations, Unwrap(selected) + 1)
               /\ \/ ui_dropped'
                  \/ mode' = << "Normal" >> /\ saved' = save_config(remote_configurations')
                  \/ mode'[1] = "Error" /\ saved' = saved]_vars

\* The user's entry of the store that held UserB and two engine remotes
\* has been removed and the file holds no entry.
C28_Witness ==
    /\ remote_configurations = << EngineR, EngineS >>
    /\ saved = << >>
    /\ mode = << "Normal" >>
    /\ selected = Some(0)

\* The cancel bindings of the EditString mode and of the Delete mode.
CancelKeys ==
    IF mode[1] = "EditString" THEN { << "Esc" >> }
    ELSE IF mode[1] = "Delete" THEN { KeyChar(Chr.q), KeyChar(Chr.n), << "Esc" >> }
    ELSE { }

\* Keys that change the edit buffer's texts, its cursor or its field.
BufferKeys ==
    { KeyChar(Chr.e), KeyChar(Chr.eacute), << "Backspace" >>, << "Left" >>,
      << "Tab" >>, << "Up" >> }

\* The front end's fields as they are and after one or two more of these
\* keys.
EditedTwice ==
    LET once == { handle_key_event(Tui, key, TRUE, TRUE) : key \in BufferKeys }
    IN {Tui} \cup once \cup
       { handle_key_event(t, key, TRUE, TRUE) : t \in once, key \in BufferKeys }

\* C29: in EditString mode, whatever the buffer holds - as it is or after
\* one or two more keys that change it - and in Delete mode, all a cancel
\* (Esc; in Delete mode q and n too) does to the front end's fields is to
\* set the mode to Normal: store, file and selection are as before,
\* nothing is sent; and the step that handles the cancel leaves the
\* command channel, the store and the file unchanged and the front end,
\* unless the exit flag the worker's Exit event has set ends it, in Normal
\* mode with the selection it had.
C29_CancelDiscards ==
    /\ []((fpc = "events" /\ mode[1] \in {"EditString", "Delete"}) =>
            \A key \in CancelKeys :
               \A t \in (IF mode[1] = "EditString" THEN EditedTwice ELSE {Tui}) :
                  \A save_ok \in BOOLEAN : \A checked \in BOOLEAN :
                     handle_key_event(t, key, save_ok, checked) =
                        [Tui EXCEPT !.mode = << "Normal" >>])
    /\ [][\A key \in CancelKeys :
            FeKeyWith(key) =>
               /\ to_thread' = to_thread
               /\ remote_configurations' = remote_configurations
               /\ saved' = saved
               /\ \/ ui_dropped'
                  \/ mode' = << "Normal" >> /\ selected' = selected]_vars

\* The edit buffer is open on its third field on a store changed before,
\* the selection on the store's second entry.
C29_Witness ==
    /\ fpc = "events"
    /\ mode[1] = "EditString"
    /\ mode[2].idx_string = 2
    /\ selected = Some(1)
    /\ session.edits < MaxEdits

\* The store rs with a copy of its entry at position i (from 1) put
\* before all its entries.
StoreWithCopyAtHead(rs, i) ==
    [j \in 1..(Len(rs) + 1) |-> IF j = 1 THEN rs[i] ELSE rs[j - 1]]

\* C30: in Normal mode with an entry selected, all the duplicate-request
\* (d) does to the front end's fields is, for an entry of origin
\* GalionConfig, to put a copy of it before all the entries of the store,
\* one entry more and the others as and in the order they were, the mode
\* Normal as before, and, for an entry of origin RcloneConfig, to set the
\* mode to Error with the store as it was; and the step that handles it
\* changes the store so and leaves the front end, unless the exit flag
\* the worker's Exit event has set ends it, in Normal mode in the one case
\* and in Error mode in the other.
C30_DuplicateInsertsCopyAtHead ==
    /\ [](EntrySelected =>
            KeyOutcomes(KeyChar(Chr.d)) =
               { IF remote_configurations[Unwrap(selected) + 1].config_origin
                       = GalionConfig
                 THEN [Tui EXCEPT !.remotes =
                          StoreWithCopyAtHead(remote_configurations,
                                              Unwrap(selected) + 1)]
                 ELSE [Tui EXCEPT !.mode =
                          << "Error",
                             "Cannot duplicate a rclone config - try to edit it" >>] })
    /\ [][(EntrySelected /\ FeKeyWith(KeyChar(Chr.d))) =>
            IF remote_configurations[Unwrap(selected) + 1].config_origin
                  = GalionConfig
            THEN /\ remote_configurations' =
                       StoreWithCopyAtHead(remote_configurations,
                                           Unwrap(selected) + 1)
                 /\ ui_dropped' \/ mode' = << "Normal" >>
            ELSE /\ remote_configurations' = remote_configurations
                 /\ ui_dropped' \/ mode'[1] = "Error"]_vars

\* A commit on the engine's remote has put a new entry at the head of the
\* store that held UserA, and UserA, then second, has been duplicated: its
\* copy is the first of four entries.
C30_Witness ==
    /\ Len(remote_configurations) = 4
    /\ remote_configurations[1] = UserA
    /\ remote_configurations[2].remote_name = EngineR.remote_name
    /\ remote_configurations[2].config_origin = GalionConfig
    /\ remote_configurations[3] = UserA
    /\ remote_configurations[4] = EngineR
    /\ mode = << "Normal" >>

\* The next-field and prev-field bindings of the EditString mode.
NextFieldKeys == { << "Down" >>, << "Tab" >> }
PrevFieldKeys == { << "Up" >> }

\* C31: in EditString mode, after a next-field (Down, Tab) or prev-field
\* (Up) key the active field is the next or the previous of name, source
\* and destination, the same at the last or the first of them, and the
\* cursor is at the count of characters of the active field's text, at
\* the first and at the last field too.  (At the first and at the last
\* field the code leaves the cursor where it is.)
C31_FieldSwitchPutsCursorAtEnd ==
    (fpc = "events" /\ mode[1] = "EditString") =>
       \A key \in NextFieldKeys \cup PrevFieldKeys :
          LET before == mode[2]
              after == handle_key_event(Tui, key, TRUE, TRUE).mode[2]
          IN /\ after.idx_string =
                   IF key \in NextFieldKeys
                   THEN (IF before.idx_string = 2 THEN 2
                         ELSE before.idx_string + 1)
                   ELSE (IF before.idx_string = 0 THEN 0
                         ELSE before.idx_string - 1)
             /\ after.character_index = Len(ActiveInput(after))

\* The text s without its character at position k (from 1), the others in
\* their order.
TextWithout(s, k) ==
    [j \in 1..(Len(s) - 1) |-> IF j < k THEN s[j] ELSE s[j + 1]]

\* The buffer a is the buffer b after the removal of the character before
\* the cursor of b, if there is one.
RemovedBeforeCursor(b, a) ==
    IF b.character_index = 0
    THEN a = b
    ELSE /\ a.idx_string = b.idx_string
         /\ a.character_index = b.character_index - 1
         /\ ActiveInput(a) = TextWithout(ActiveInput(b), b.character_index)
         /\ b.idx_string # 0 => a.edit_remote_name = b.edit_remote_name
         /\ b.idx_string # 1 => a.edit_remote_src = b.edit_remote_src
         /\ b.idx_string # 2 => a.edit_remote_dest = b.edit_remote_dest

\* C32: in EditString mode, for the buffer as it is and for each of its
\* fields with the cursor anywhere from 0 to the field's count of
\* characters, all Backspace does to the front end's fields is to change
\* the buffer: not at all with the cursor at 0; with the cursor at k > 0
\* the active field loses its character at index k - 1, the others
\* staying in order, the cursor is at k - 1 and the two other fields are
\* as before; and the step that handles Backspace changes the buffer so.
C32_BackspaceRemovesBeforeCursor ==
    /\ []((fpc = "events" /\ mode[1] = "EditString") =>
            \A idx \in 0..2 :
               \A ci \in 0..Len(ActiveInput(BufferAt(mode[2], idx, 0))) :
                  LET b == BufferAt(mode[2], idx, ci)
                      before == [Tui EXCEPT !.mode = << "EditString", b >>]
                      after == handle_key_event(before, << "Backspace" >>,
                                                TRUE, TRUE)
                  IN /\ after.mode[1] = "EditString"
                     /\ RemovedBeforeCursor(b, after.mode[2])
                     /\ after = [before EXCEPT !.mode = after.mode])
    /\ [][(mode[1] = "EditString" /\ FeKeyWith(<< "Backspace" >>)) =>
            \/ ui_dropped'
            \/ /\ mode'[1] = "EditString"
               /\ RemovedBeforeCursor(mode[2], mode'[2])]_vars

\* The cursor stands behind a character of two bytes typed at the head of
\* the name, other characters following it.
C32_Witness ==
    /\ fpc = "events"
    /\ mode[1] = "EditString"
    /\ mode[2].idx_string = 0
    /\ mode[2].character_index = 1
    /\ Len(mode[2].edit_remote_name) >= 2
    /\ mode[2].edit_remote_name[1] = Chr.eacute

\* The modes other than Normal.
ModalModes == {"Error", "Delete", "EditString"}

\* C33: wherever the front end handles events, a key whose handling sends
\* a Submit is the trigger-job (Right) in Normal mode, and it sends one;
\* in Error, Delete and EditString mode no key but Ctrl + c sends a
\* command, no key moves the selection, and the store changes only by
\* confirm-yes (y, Enter) in Delete mode and commit (Enter) in EditString
\* mode; and a step that queues a Submit for the worker is taken in Normal
\* mode, a step taken in another mode leaves the selection, unless it
\* ends the front end.
C33_SubmitOnlyFromNormalMode ==
    /\ [](fpc = "events" =>
            \A key \in Keys : \A t \in KeyOutcomes(key) :
               /\ Submits(t.out) > 0 =>
                     /\ mode[1] = "Normal"
                     /\ key = << "Right" >>
                     /\ Submits(t.out) = 1
               /\ mode[1] \in ModalModes =>
                     /\ t.selected = selected
                     /\ key # KeyCtrl(Chr.c) => t.out = << >>
                     /\ t.remotes # remote_configurations =>
                           \/ mode[1] = "Delete" /\ key \in ConfirmKeys
                           \/ mode[1] = "EditString" /\ key = << "Enter" >>)
    /\ [][(Len(to_thread') > Len(to_thread)
            /\ to_thread'[Len(to_thread')][1] = "Sync") =>
               (fpc = "events" /\ mode[1] = "Normal")]_vars
    /\ [][(mode[1] \in ModalModes) =>
            (ui_dropped' \/ selected' = selected)]_vars

\* Keys are handled in Delete mode after a job was triggered on the
\* selected entry.
C33_Witness ==
    /\ fpc = "events"
    /\ mode[1] = "Delete"
    /\ session.jobs = 0
    /\ ~exit_flag

\* The snapshot the worker published last, while the front end lives: the
\* newest one queued on the snapshot channel or, none being queued, the one
\* the front end took last, its job view (empty before the first).
LastPublished ==
    IF QueuedSnapshots = << >> THEN jobs
    ELSE QueuedSnapshots[Len(QueuedSnapshots)][2]

\* C34: while the front end lives, whenever the worker is at its blocking
\* recv the snapshot it published last is its JobsList as it is now - the
\* empty one if it has published none - and every job of it is Done; and
\* from there, with a front end that goes on with the passes of its loop,
\* the front end's job view comes to be that JobsList, unless the worker
\* leaves recv for a command or the front end ends first.
C34_IdleWorkerHasPublishedItsList ==
    /\ []((wpc = "recv" /\ ~ui_dropped) =>
            /\ LastPublished = tracking_jobs
            /\ \A k \in DOMAIN tracking_jobs : tracking_jobs[k][1] = "Done")
    /\ (wpc = "recv" /\ ~ui_dropped) ~>
          \/ jobs = tracking_jobs
          \/ wpc # "recv"
          \/ ui_dropped

\* The worker is blocked in recv with its jobs Done while the front end
\* still shows an older snapshot and the newest is queued.
C34_Witness ==
    /\ wpc = "recv"
    /\ ~ui_dropped
    /\ to_thread = << >>
    /\ tracking_jobs # EmptyJobs
    /\ jobs # tracking_jobs
    /\ jobs # EmptyJobs
    /\ to_ui # << >>

CommittedPlace(rs, i) == IF rs[i].config_origin = GalionConfig THEN i ELSE 1

\* C36: wherever the edit buffer is open, the commit (Enter) of the buffer
\* - as it is or after one or two more keys that change it, whether
\* save_config succeeds or not - leaves in the store a configuration whose
\* source and destination are both there, the buffer's texts, empty or
\* not; and in Normal mode with an entry selected that has no source or
\* no destination, after the edit-request (e) and the commit (Enter) the
\* trigger-job (Right) on the committed entry raises no error and sends
\* one Submit with the entry's name and locators, the empty text for the
\* one that was missing; and the step that handles a commit leaves such a
\* configuration in the store.
C36_CommitMakesLocatorsPresent ==
    /\ []((fpc = "events" /\ mode[1] = "EditString") =>
            \A t \in EditedTwice : \A save_ok \in BOOLEAN :
               LET place == CommittedPlace(remote_configurations,
                                           Unwrap(selected) + 1)
                   entry == handle_key_event(t, << "Enter" >>, save_ok,
                                             TRUE).remotes[place]
               IN /\ entry.remote_src = << t.mode[2].edit_remote_src >>
                  /\ entry.remote_dest = << t.mode[2].edit_remote_dest >>)
    /\ [](IncompleteEntrySelected =>
            LET place == CommittedPlace(remote_configurations,
                                        Unwrap(selected) + 1)
                opened == handle_key_event(Tui, KeyChar(Chr.e), TRUE, TRUE)
                committed == handle_key_event(opened, << "Enter" >>, TRUE, TRUE)
                triggered == handle_key_event(
                                 [committed EXCEPT !.selected = Some(place - 1)],
                                 << "Right" >>, TRUE, TRUE)
                src == IF SelectedEntry.remote_src = None THEN << >>
                       ELSE SelectedEntry.remote_src[1]
                dest == IF SelectedEntry.remote_dest = None THEN << >>
                        ELSE SelectedEntry.remote_dest[1]
            IN /\ committed.mode = << "Normal" >>
               /\ triggered.mode = << "Normal" >>
               /\ triggered.out =
                     << << "Sync", [job_id |-> 0,
                                    name |-> SelectedEntry.remote_name,
                                    src |-> src, dest |-> dest] >> >>
               /\ src = << >> \/ dest = << >>)
    /\ [][(mode[1] = "EditString" /\ FeKeyWith(<< "Enter" >>)) =>
            LET entry == remote_configurations'[
                             CommittedPlace(remote_configurations,
                                            Unwrap(selected) + 1)]
            IN entry.remote_src # None /\ entry.remote_dest # None]_vars

\* UserB, which had no destination, has been committed from the edit
\* buffer as it was: its destination is the empty text.
C36_Witness ==
    /\ fpc = "events"
    /\ mode = << "Normal" >>
    /\ selected = Some(0)
    /\ remote_configurations[1] =
          Remote(UserB.remote_name, UserB.remote_src, Some(<< >>), GalionConfig)
    /\ saved[1].remote_dest = Some(<< >>)

\* C37: when save_config fails, all confirm-yes (y, Enter) in Delete mode
\* and commit (Enter) in EditString mode do to the front end's fields is
\* to change the store as they do when it succeeds - the selected entry
\* removed, respectively the buffer's configuration in the place of the
\* selected entry or at the head - and to set the mode to Error with the
\* message of the failed save: the file is as it was and holds the old
\* list; and a step that handles one of these keys leaves the front end,
\* unless it ends, in Normal mode with the store's GalionConfig entries in
\* the file, or in Error mode with the file as it was.
C37_FailedPersistKeepsMutation ==
    /\ []((fpc = "events" /\ mode[1] = "Delete") =>
            \A key \in ConfirmKeys :
               handle_key_event(Tui, key, FALSE, TRUE) =
                  [Tui EXCEPT
                      !.remotes = StoreWithout(remote_configurations,
                                               Unwrap(selected) + 1),
                      !.mode = << "Error",
                                  "Failed to save the config after remote deletion {e}" >>])
    /\ []((fpc = "events" /\ mode[1] = "EditString") =>
            handle_key_event(Tui, << "Enter" >>, FALSE, TRUE) =
               [Tui EXCEPT
                   !.remotes = StoreAfterCommit(remote_configurations,
                                                Unwrap(selected) + 1, mode[2]),
                   !.mode = << "Error", "Error save the config {e}" >>])
    /\ [][(\/ mode[1] = "Delete" /\ \E key \in ConfirmKeys : FeKeyWith(key)
           \/ mode[1] = "EditString" /\ FeKeyWith(<< "Enter" >>)) =>
            \/ ui_dropped'
            \/ mode' = << "Normal" >> /\ HoldsUserEntries(saved', remote_configurations')
            \/ mode'[1] = "Error" /\ saved' = saved]_vars

\* The removal of UserA could not be saved: the store holds the engine's
\* remote alone, the file still UserA, and the mode is Error.
C37_Witness ==
    /\ mode = << "Error", "Failed to save the config after remote deletion {e}" >>
    /\ remote_configurations = << EngineR >>
    /\ Len(saved) = 1
    /\ saved[1].remote_name = UserA.remote_name

\* C38: wherever the front end handles events, a key that changes the
\* store - confirm-yes, commit or the duplicate-request - and does not end
\* in Error mode leaves in the file the GalionConfig entries of the store
\* as it then is, all of them and in its order: the duplicate is in the
\* file once it is made.  (The duplicate arm inserts the copy and does not
\* call save_config.)
C38_EveryMutationIsPersisted ==
    (fpc = "events") =>
       \A key \in Keys :
          LET t == handle_key_event(Tui, key, TRUE, TRUE)
          IN (t.remotes # remote_configurations /\ t.mode[1] # "Error") =>
                HoldsUserEntries(t.saved, t.remotes)

\* The delete-request, edit-request and trigger-job bindings used after
\* an insertion.
FollowingKeys == { KeyChar(Chr.r), KeyChar(Chr.e), << "Right" >> }

\* After the insertion that made t of the front end's fields, the selection
\* is the index i it was, and for i > 0 it designates the entry that was at
\* i - 1: r, e and Right do to t what they do with that entry selected in
\* the store as it was.
SelectionLeftBehind(t, i) ==
    /\ t.selected = Some(i)
    /\ Len(t.remotes) = Len(remote_configurations) + 1
    /\ i > 0 =>
          /\ t.remotes[i + 1] = remote_configurations[i]
          /\ \A key \in FollowingKeys :
                LET now == handle_key_event(t, key, TRUE, TRUE)
                    ref == handle_key_event(
                               [Tui EXCEPT !.mode = << "Normal" >>,
                                           !.selected = Some(i - 1)],
                               key, TRUE, TRUE)
                IN now.mode = ref.mode /\ now.out = ref.out

\* C39: the duplicate-request on a selected entry of origin GalionConfig,
\* and the commit of the edit buffer on a selected entry of origin
\* RcloneConfig, put an entry at the head of the store and leave the
\* selection index as it was: for an index i > 0 the entry it designates
\* afterwards is the one that was at i - 1, and a delete-request, an
\* edit-request or a trigger-job that follows applies to that entry; and
\* the step that handles such a key leaves the selection index, unless
\* the front end ends with it.
C39_InsertionLeavesSelectionIndex ==
    /\ []((EntrySelected
            /\ remote_configurations[Unwrap(selected) + 1].config_origin
                  = GalionConfig) =>
            SelectionLeftBehind(
               handle_key_event(Tui, KeyChar(Chr.d), TRUE, TRUE),
               Unwrap(selected)))
    /\ []((fpc = "events" /\ mode[1] = "EditString"
            /\ remote_configurations[Unwrap(selected) + 1].config_origin
                  = RcloneConfig) =>
            SelectionLeftBehind(
               handle_key_event(Tui, << "Enter" >>, TRUE, TRUE),
               Unwrap(selected)))
    /\ [][(/\ \/ EntrySelected /\ FeKeyWith(KeyChar(Chr.d))
              \/ mode[1] = "EditString" /\ FeKeyWith(<< "Enter" >>)
           /\ Len(remote_configurations') = Len(remote_configurations) + 1) =>
            (ui_dropped' \/ selected' = selected)]_vars

\* A commit on the engine's remote, selected at index 1, has put a new
\* entry at the head of the store: the selection, still 1, is on UserA.
C39_Witness ==
    /\ fpc = "events"
    /\ mode = << "Normal" >>
    /\ selected = Some(1)
    /\ Len(remote_configurations) = 3
    /\ remote_configurations[1].remote_name = EngineR.remote_name
    /\ remote_configurations[1].config_origin = GalionConfig
    /\ remote_configurations[2] = UserA
    /\ remote_configurations[3] = EngineR

\* Number of entries of a JobsList.
Entries(list) == Cardinality(DOMAIN list)

\* C40: the worker's JobsList never loses an entry: no step takes a key out
\* of it, and the number of its entries grows only by one, in a step that
\* takes a Submit command off the command channel; the key sets of the
\* front end's view, of the snapshots queued from oldest to newest and of
\* the JobsList are each contained in the next; and the entries together
\* with the Submit commands still queued are never more than the Submit
\* commands the front end has sent, so the entries are never more than the
\* Submit commands consumed.
C40_JobsListOnlyGrows ==
    /\ [][/\ DOMAIN tracking_jobs \subseteq DOMAIN tracking_jobs'
          /\ Entries(tracking_jobs') > Entries(tracking_jobs) =>
                /\ ConsumesSubmit
                /\ Entries(tracking_jobs') = Entries(tracking_jobs) + 1]_vars
    /\ [](\A i \in 1..Len(SnapshotChain) : \A j \in i..Len(SnapshotChain) :
             DOMAIN SnapshotChain[i] \subseteq DOMAIN SnapshotChain[j])
    /\ [](Entries(tracking_jobs) + Submits(to_thread)
             <= MaxJobs - session.jobs)

\* The worker tracks two jobs, a snapshot of both is on its way, and the
\* front end still views the snapshot that held the first alone.
C40_Witness ==
    /\ Entries(tracking_jobs) = 2
    /\ Entries(jobs) = 1
    /\ QueuedSnapshots # << >>
    /\ QueuedSnapshots[Len(QueuedSnapshots)][2] = tracking_jobs
    /\ DOMAIN jobs \subseteq DOMAIN tracking_jobs
    /\ session.jobs = 0

=============================================================================
